---- MODULE Spec2Model ----
(***************************************************************************)
(* Verification model of guitar-diagnostics: the single-producer /         *)
(* single-consumer LockFreeRingBuffer<float>, the AnalysisEngine worker    *)
(* that slices the ring into frames, and the assembled application         *)
(* (audio callback, engine worker, UI panels).                             *)
(*                                                                         *)
(* Every atomic load/store and every slot copy of Write, Read and          *)
(* GetAvailableRead is one step of the thread executing it.                *)
(***************************************************************************)
EXTENDS Integers, Sequences, FiniteSets, TLC

\* ------------------------------------------------------------------------
\* Bounds
\* ------------------------------------------------------------------------
Capacity == 3          \* user capacity handed to the ring's constructor
MaxSamples == 5        \* samples the producer offers in one behaviour
FrameSize == 2         \* AnalysisConfig::bufferSize handed to the engine
WaveformSize == 2      \* AudioMonitorPanel::g_kWaveformSize, scaled down
MaxAnalyzers == 2      \* longest registration list explored
PitchAccumulatorSize == 3  \* IntonationAnalyzer::g_kPitchAccumulatorSize, scaled down
MinStableCount == 2    \* pitches HasStablePitch requires (10 in the source)
MaxTime == 4           \* last tick of the clocks explored
MaxObjects == 4        \* result objects alive at the same time
MaxCalls == 1          \* calls each thread makes while the others are inside theirs
DecayHistorySize == 2  \* StringHealthAnalyzer::g_kDecayHistorySize, scaled down
MinDecaySamples == 2   \* history AnalyzeDecay requires (10 in the source)
MaxFrameCount == 5     \* frames a StringHealthAnalyzer is given between Resets

\* ------------------------------------------------------------------------
\* Ring buffer: constants and pure helpers
\* ------------------------------------------------------------------------
\* LockFreeRingBuffer::capacity is initialised to (user capacity + 1).
capacity == Capacity + 1

Slots == 0 .. (capacity - 1)
Sample == 0 .. MaxSamples

Workers == {"w1", "w2"}
Threads == Workers \cup {"ui", "cons"}
Owners == {"engine", "ui", "cons"}
AnalyzerIds == 1 .. MaxAnalyzers
NullAnalyzer == 0

Min(a, b) == IF a < b THEN a ELSE b

IsPrefix(s, t) == Len(s) <= Len(t) /\ SubSeq(t, 1, Len(s)) = s

Zeros(n) == [j \in 1 .. n |-> 0]

\* Variant: the wrapped branch counts one slot too many.
GetAvailableReadInternal_OffByOne(readIdx, writeIdx) ==
    IF writeIdx >= readIdx
    THEN writeIdx - readIdx
    ELSE capacity - readIdx + writeIdx + 1

GetAvailableReadInternal(readIdx, writeIdx) ==
    IF writeIdx >= readIdx
    THEN writeIdx - readIdx
    ELSE capacity - readIdx + writeIdx

\* Variant: the sentinel slot is counted as writable.
GetAvailableWriteInternal_NoSentinel(writeIdx, readIdx) ==
    capacity - GetAvailableReadInternal(readIdx, writeIdx)

GetAvailableWriteInternal(writeIdx, readIdx) ==
    capacity - 1 - GetAvailableReadInternal(readIdx, writeIdx)

\* Index the producer publishes after copying n samples from writeIdx.
NextWriteIndex(writeIdx, n) == (writeIdx + n) % capacity

\* Index the consumer publishes after copying toRead samples from readIdx.
NextReadIndex(readIdx, toRead) == (readIdx + toRead) % capacity

\* Slot touched by the i-th (0-based) iteration of a copy loop.
SlotAt(idx, i) == (idx + i) % capacity

\* The owner of the output span a thread hands to Read.
OutOf(t) == IF t \in Workers THEN "engine" ELSE t

\* ------------------------------------------------------------------------
\* AnalysisConfig
\* ------------------------------------------------------------------------
\* AnalysisConfig(sampleRate, bufferSize): a float and a uint32_t.
Configs == [sampleRate : {0 - 48000, 0, 48000}, bufferSize : {0, FrameSize}]

\* The configuration every analyzer's constructor starts from.
NoConfig == [sampleRate |-> 0, bufferSize |-> 0]

\* The configuration the application and the tests hand to Configure.
UsualConfigs == {[sampleRate |-> 48000, bufferSize |-> FrameSize]}

\* ------------------------------------------------------------------------
\* IntonationAnalyzer: constants and pure helpers
\* ------------------------------------------------------------------------
\* Frequencies are whole Hz, confidences whole percent, times whole ticks of
\* 250 ms.  The pitches offered by the detector are even, so the median of
\* an even number of them is a whole number.
Pitches == {110, 112, 220}
Confidences == {60, 70}
NoPitch == [frequency |-> 0, confidence |-> 0]
Detections == {NoPitch} \cup [frequency : Pitches, confidence : Confidences]

ConfidenceThreshold == 70      \* g_kConfidenceThreshold = 0.7f
StableTimeRequired == 2        \* g_kStableTimeRequired = 500 ms
StabilityThreshold == 2        \* g_kStabilityThreshold = 2.0f (Hz)

IntonationStates ==
    <<"Idle", "OpenString", "WaitFor12thFret", "FrettedString", "Complete">>

\* Position of an IntonationState in the enum's declaration order.
StateRank(st) == CHOOSE r \in 1 .. Len(IntonationStates) : IntonationStates[r] = st

Abs(x) == IF x < 0 THEN -x ELSE x

RECURSIVE SumSeq(_)
SumSeq(q) == IF q = <<>> THEN 0 ELSE Head(q) + SumSeq(Tail(q))

RECURSIVE InsertSorted(_, _)
InsertSorted(x, q) ==
    IF q = <<>> THEN <<x>>
    ELSE IF x <= Head(q) THEN <<x>> \o q
    ELSE <<Head(q)>> \o InsertSorted(x, Tail(q))

\* std::sort of a vector of pitches.
RECURSIVE SortPitches(_)
SortPitches(q) == IF q = <<>> THEN <<>> ELSE InsertSorted(Head(q), SortPitches(Tail(q)))

\* IntonationAnalyzer(): the constructor's member initialisers.
IntonationAnalyzerInit ==
    [config |-> NoConfig,
     pitchDetector |-> FALSE,
     currentState |-> "Idle",
     pitchAccumulator |-> Zeros(PitchAccumulatorSize),
     pitchCount |-> 0,
     stateStartTime |-> 0,
     openStringFreq |-> 0,
     frettedStringFreq |-> 0,
     centDeviation |-> 0,
     isInTune |-> FALSE]

\* IntonationResult(): the default-constructed result.
IntonationResultInit ==
    [isValid |-> FALSE, state |-> "Idle",
     openStringFrequency |-> 0, frettedStringFrequency |-> 0,
     expectedFrettedFrequency |-> 0, centDeviation |-> 0, isInTune |-> FALSE]

\* The first pitchCount entries of the accumulator.
Accumulated(a) == SubSeq(a.pitchAccumulator, 1, a.pitchCount)

\* AccumulatePitch: fill the next entry, or shift left and replace the last.
AccumulatePitch(a, frequency) ==
    IF a.pitchCount < PitchAccumulatorSize
    THEN [a EXCEPT !.pitchAccumulator[a.pitchCount + 1] = frequency,
                   !.pitchCount = a.pitchCount + 1]
    ELSE [a EXCEPT !.pitchAccumulator =
                       Append(Tail(a.pitchAccumulator), frequency)]

\* GetStablePitch: median of the accumulated pitches, 0 when there is none.
GetStablePitch(a) ==
    IF a.pitchCount = 0 THEN 0
    ELSE LET sortedPitches == SortPitches(Accumulated(a))
             medianIndex == Len(sortedPitches) \div 2
         IN IF Len(sortedPitches) % 2 = 0
            THEN (sortedPitches[medianIndex] + sortedPitches[medianIndex + 1]) \div 2
            ELSE sortedPitches[medianIndex + 1]

\* CalculateStandardDeviation() < threshold.  With n pitches of sum S and
\* sum of squares Q the variance is (n*Q - S*S) / (n*n), so the population
\* standard deviation is below the threshold iff
\* n*Q - S*S < threshold^2 * n^2.
StandardDeviationBelow(a, threshold) ==
    LET n == a.pitchCount
        S == SumSeq(Accumulated(a))
        Q == SumSeq([j \in 1 .. n |-> a.pitchAccumulator[j] * a.pitchAccumulator[j]])
    IN n = 0 \/ n * Q - S * S < threshold * threshold * n * n

HasStablePitch(a) ==
    IF a.pitchCount < MinStableCount
    THEN FALSE
    ELSE StandardDeviationBelow(a, StabilityThreshold)

\* 1200 * log2(f / e) in whole cents, by the first-order expansion
\* (1200 / ln 2) * (f - e) / e, truncated towards zero: exact in sign and
\* at f = e.
Cents(f, e) ==
    IF f >= e THEN (1731 * (f - e)) \div e ELSE -((1731 * (e - f)) \div e)

\* |1200 * log2(f / e)| <= g_kInTuneTolerance (5 cents), i.e. the ratio of f
\* and e is at most 2^(5/1200) = 1.002892... in either direction.
WithinInTuneTolerance(f, e) ==
    /\ 1000000 * f <= 1002892 * e
    /\ 1000000 * e <= 1002892 * f

CalculateDeviation(a) ==
    LET expectedFretted == a.openStringFreq * 2
    IN IF a.frettedStringFreq > 0 /\ expectedFretted > 0
       THEN [a EXCEPT !.centDeviation = Cents(a.frettedStringFreq, expectedFretted),
                      !.isInTune = WithinInTuneTolerance(a.frettedStringFreq,
                                                         expectedFretted)]
       ELSE [a EXCEPT !.centDeviation = 0, !.isInTune = FALSE]

\* Variant: the open-string pitch is taken for the fretted one as well.
TransitionToOpenString_CapturesBoth(a, frequency, t) ==
    [a EXCEPT !.currentState = "OpenString",
              !.openStringFreq = frequency,
              !.frettedStringFreq = frequency,
              !.pitchCount = 0,
              !.stateStartTime = t]

TransitionToOpenString(a, frequency, t) ==
    [a EXCEPT !.currentState = "OpenString",
              !.openStringFreq = frequency,
              !.pitchCount = 0,
              !.stateStartTime = t]

\* Variant: the waiting state is skipped.
TransitionToWaitFor12thFret_SkipsWait(a, t) ==
    [a EXCEPT !.currentState = "FrettedString",
              !.pitchCount = 0,
              !.stateStartTime = t]

TransitionToWaitFor12thFret(a, t) ==
    [a EXCEPT !.currentState = "WaitFor12thFret",
              !.pitchCount = 0,
              !.stateStartTime = t]

\* Variant: the pitches of the waiting state stay in the accumulator.
TransitionToFrettedString_KeepsAccumulator(a, frequency, t) ==
    [a EXCEPT !.currentState = "FrettedString",
              !.frettedStringFreq = frequency,
              !.stateStartTime = t]

TransitionToFrettedString(a, frequency, t) ==
    [a EXCEPT !.currentState = "FrettedString",
              !.frettedStringFreq = frequency,
              !.pitchCount = 0,
              !.stateStartTime = t]

TransitionToComplete(a) ==
    CalculateDeviation([a EXCEPT !.currentState = "Complete"])

\* Variant: any pitch below twice the expected one passes for the octave.
WithinOctaveTolerance_Wide(currentPitch, expectedFretted) ==
    /\ expectedFretted > 0
    /\ Abs(currentPitch - expectedFretted) < expectedFretted

\* std::abs(currentPitch - expectedFretted) / expectedFretted < 0.1f; the
\* quotient is infinite or NaN when expectedFretted is 0.
WithinOctaveTolerance(currentPitch, expectedFretted) ==
    /\ expectedFretted > 0
    /\ 10 * Abs(currentPitch - expectedFretted) < expectedFretted

\* Variant: OpenString and FrettedString are left on the first stable frame.
UpdateStateMachine_NoDwell(a, t) ==
    CASE a.currentState = "Idle" ->
            IF HasStablePitch(a)
            THEN TransitionToOpenString(a, GetStablePitch(a), t)
            ELSE a
      [] a.currentState = "OpenString" ->
            IF HasStablePitch(a) THEN TransitionToWaitFor12thFret(a, t) ELSE a
      [] a.currentState = "WaitFor12thFret" ->
            IF /\ HasStablePitch(a)
               /\ WithinOctaveTolerance(GetStablePitch(a), a.openStringFreq * 2)
            THEN TransitionToFrettedString(a, GetStablePitch(a), t)
            ELSE a
      [] a.currentState = "FrettedString" ->
            IF HasStablePitch(a) THEN TransitionToComplete(a) ELSE a
      [] a.currentState = "Complete" -> a

\* UpdateStateMachine at clock reading t.
UpdateStateMachine(a, t) ==
    CASE a.currentState = "Idle" ->
            IF HasStablePitch(a)
            THEN TransitionToOpenString(a, GetStablePitch(a), t)
            ELSE a
      [] a.currentState = "OpenString" ->
            IF HasStablePitch(a) /\ t - a.stateStartTime >= StableTimeRequired
            THEN TransitionToWaitFor12thFret(a, t)
            ELSE a
      [] a.currentState = "WaitFor12thFret" ->
            IF /\ HasStablePitch(a)
               /\ WithinOctaveTolerance(GetStablePitch(a), a.openStringFreq * 2)
            THEN TransitionToFrettedString(a, GetStablePitch(a), t)
            ELSE a
      [] a.currentState = "FrettedString" ->
            IF HasStablePitch(a) /\ t - a.stateStartTime >= StableTimeRequired
            THEN TransitionToComplete(a)
            ELSE a
      [] a.currentState = "Complete" -> a

\* Variant: a completed measurement keeps following the detected pitch.
ProcessDetection_TracksFretted(a, detection, t) ==
    IF detection # NoPitch /\ detection.confidence >= ConfidenceThreshold
    THEN LET b == UpdateStateMachine(AccumulatePitch(a, detection.frequency), t)
         IN IF b.currentState = "Complete"
            THEN CalculateDeviation([b EXCEPT !.frettedStringFreq =
                                                  detection.frequency])
            ELSE b
    ELSE a

\* The analyzer's fields after the pitch-detection part of ProcessBuffer.
ProcessDetection(a, detection, t) ==
    IF detection # NoPitch /\ detection.confidence >= ConfidenceThreshold
    THEN UpdateStateMachine(AccumulatePitch(a, detection.frequency), t)
    ELSE a

\* Variant: the deviation of the last measurement survives.
ResetFields_KeepsDeviation(a, t) ==
    [a EXCEPT !.currentState = "Idle",
              !.pitchCount = 0,
              !.pitchAccumulator = Zeros(PitchAccumulatorSize),
              !.openStringFreq = 0,
              !.frettedStringFreq = 0,
              !.stateStartTime = t]

\* The fields Reset assigns before it publishes.
ResetFields(a, t) ==
    [a EXCEPT !.currentState = "Idle",
              !.pitchCount = 0,
              !.pitchAccumulator = Zeros(PitchAccumulatorSize),
              !.openStringFreq = 0,
              !.frettedStringFreq = 0,
              !.centDeviation = 0,
              !.isInTune = FALSE,
              !.stateStartTime = t]

\* Variant: the result is published without being marked valid.
ResultOf_NotMarkedValid(a) ==
    [isValid |-> FALSE, state |-> a.currentState,
     openStringFrequency |-> a.openStringFreq,
     frettedStringFrequency |-> a.frettedStringFreq,
     expectedFrettedFrequency |-> a.openStringFreq * 2,
     centDeviation |-> a.centDeviation, isInTune |-> a.isInTune]

\* The result UpdateResult builds from the analyzer's fields (the timestamp,
\* which nothing reads, is left out).
ResultOf(a) ==
    [isValid |-> TRUE, state |-> a.currentState,
     openStringFrequency |-> a.openStringFreq,
     frettedStringFrequency |-> a.frettedStringFreq,
     expectedFrettedFrequency |-> a.openStringFreq * 2,
     centDeviation |-> a.centDeviation, isInTune |-> a.isInTune]

\* ------------------------------------------------------------------------
\* FretBuzzDetector: constants and pure helpers
\* ------------------------------------------------------------------------
\* Scores are whole hundredths (0 .. 100).  A frame is described by what
\* the signal-processing calls compute from its samples and its spectrum:
\*   rms         CalculateRMSEnergy
\*   spectrum    the magnitude of the spectrum (one bin)
\*   attack      1 - attackTime / 0.1, before it is clamped (attackTime is
\*               1 s when no sample reaches 0.01, which gives -9)
\*   zcr         the zero-crossing rate / 1000, before it is clamped
\*   highFreq    the 4-8 kHz share of the 80 Hz-12 kHz energy, 0 when the
\*               total is below 1e-6
\*   confidence  of the pitch detected, in percent, 0 for no pitch
\*   deviation   the mean relative deviation of the harmonics, before it is
\*               clamped
Clamp(x, lo, hi) == IF x < lo THEN lo ELSE IF x > hi THEN hi ELSE x

StringNames == {"Unknown", "A"}
PitchConfidences == {0, 60, 90}

\* A frame whose samples are all 0: nothing reaches 0.01, nothing crosses
\* zero, the spectrum is empty and no pitch is found.
FretBuzzSilence ==
    [rms |-> 0, spectrum |-> 0, attack |-> 0 - 900, zcr |-> 0, highFreq |-> 0,
     confidence |-> 0, deviation |-> 0]

\* The frames: silence, and the frames with samples other than 0.
FretBuzzFrames ==
    {FretBuzzSilence} \cup
    [rms : 1 .. 2, spectrum : {0, 2}, attack : {0 - 900, 100}, zcr : {0, 150},
     highFreq : {0, 100}, confidence : PitchConfidences, deviation : {0, 130}]

\* A loud frame: a plucked note with a fast, noisy attack and a confident
\* pitch.
FretBuzzNote ==
    [rms |-> 2, spectrum |-> 2, attack |-> 100, zcr |-> 150, highFreq |-> 100,
     confidence |-> 90, deviation |-> 130]

FretBuzzResultInit ==
    [isValid |-> FALSE, buzzScore |-> 0, onsetDetected |-> FALSE,
     transientScore |-> 0, highFreqEnergyScore |-> 0,
     inharmonicityScore |-> 0, stringInfo |-> "Unknown"]

\* FretBuzzDetector(): the constructor's member initialisers.
FretBuzzDetectorInit ==
    [config |-> NoConfig,
     fftProcessor |-> FALSE,
     prevSpectrum |-> 0,
     rmsHistory |-> 0,
     prevRMS |-> 0,
     onsetActive |-> FALSE,
     currentBuzzScore |-> 0,
     currentOnsetDetected |-> FALSE,
     currentTransientScore |-> 0,
     currentHighFreqEnergyScore |-> 0,
     currentInharmonicityScore |-> 0,
     currentStringInfo |-> "Unknown",
     latestResult |-> FretBuzzResultInit]

\* CalculateSpectralFlux: the positive part of (spectrum - prevSpectrum).
CalculateSpectralFlux(spectrum, prevSpectrum) ==
    IF spectrum - prevSpectrum > 0 THEN spectrum - prevSpectrum ELSE 0

\* Variant: the ratio is taken against a previous RMS of 0 as well.
DetectOnset_NoPreviousNeeded(prevRMS, rms, spectralFlux) ==
    2 * rms > 3 * prevRMS \/ 2 * spectralFlux > 3

\* DetectOnset: rms / prevRMS > 1.5 or spectralFlux > 1.5, once a previous
\* RMS exists.
DetectOnset(prevRMS, rms, spectralFlux) ==
    /\ prevRMS > 0
    /\ (2 * rms > 3 * prevRMS \/ 2 * spectralFlux > 3)

\* Variant: the attack and zero-crossing scores are averaged as computed.
AnalyzeTransient_Unclamped(frame) == (frame.attack + frame.zcr) \div 2

\* AnalyzeTransient: the mean of the clamped attack and zero-crossing
\* scores.
AnalyzeTransient(frame) ==
    (Clamp(frame.attack, 0, 100) + Clamp(frame.zcr, 0, 100)) \div 2

AnalyzeHighFrequencyNoise(frame) == Clamp(frame.highFreq, 0, 100)

\* AnalyzeInharmonicity: 0 without a pitch of confidence 0.5 or more;
\* ExtractHarmonics finds none when the sample rate is not positive, and
\* CalculateInharmonicityMetric then returns 0.
AnalyzeInharmonicity(d, frame) ==
    IF frame.confidence < 50 THEN 0
    ELSE IF d.config.sampleRate <= 0 THEN 0
    ELSE Clamp(frame.deviation, 0, 100)

\* The result UpdateResult builds from the detector's fields.
FretBuzzResultOf(d) ==
    [isValid |-> TRUE, buzzScore |-> d.currentBuzzScore,
     onsetDetected |-> d.currentOnsetDetected,
     transientScore |-> d.currentTransientScore,
     highFreqEnergyScore |-> d.currentHighFreqEnergyScore,
     inharmonicityScore |-> d.currentInharmonicityScore,
     stringInfo |-> d.currentStringInfo]

\* ProcessBuffer on a configured detector.  prevSpectrum is overwritten
\* with the frame's spectrum before DetectOnset computes the flux; a pitch
\* of confidence above 0.85 is 110 Hz, which StringDetector::Classify names
\* "A".
FretBuzzProcess(d, frame) ==
    LET d1 == [d EXCEPT !.prevSpectrum = frame.spectrum]
        onset == DetectOnset(d1.prevRMS, frame.rms,
                             CalculateSpectralFlux(frame.spectrum, d1.prevSpectrum))
        d2 == [d1 EXCEPT !.prevRMS = frame.rms,
                         !.currentOnsetDetected = onset,
                         !.currentTransientScore = AnalyzeTransient(frame),
                         !.currentHighFreqEnergyScore =
                             AnalyzeHighFrequencyNoise(frame),
                         !.currentInharmonicityScore =
                             AnalyzeInharmonicity(d1, frame),
                         !.currentStringInfo =
                             IF frame.confidence > 85 THEN "A"
                             ELSE d1.currentStringInfo]
        d3 == [d2 EXCEPT !.currentBuzzScore =
                             (30 * d2.currentTransientScore
                              + 40 * d2.currentHighFreqEnergyScore
                              + 30 * d2.currentInharmonicityScore) \div 100]
    IN [d3 EXCEPT !.latestResult = FretBuzzResultOf(d3)]

\* Variant: Reset halves the buzz score instead of clearing it.
FretBuzzResetFields_HalvesScore(d) ==
    LET d1 == [d EXCEPT !.prevRMS = 0,
                        !.onsetActive = FALSE,
                        !.prevSpectrum = 0,
                        !.rmsHistory = 0,
                        !.currentBuzzScore = d.currentBuzzScore \div 2,
                        !.currentOnsetDetected = FALSE,
                        !.currentTransientScore = 0,
                        !.currentHighFreqEnergyScore = 0,
                        !.currentInharmonicityScore = 0]
    IN [d1 EXCEPT !.latestResult = FretBuzzResultOf(d1)]

\* Reset(): the assignments, then UpdateResult.  currentStringInfo is not
\* assigned.
FretBuzzResetFields(d) ==
    LET d1 == [d EXCEPT !.prevRMS = 0,
                        !.onsetActive = FALSE,
                        !.prevSpectrum = 0,
                        !.rmsHistory = 0,
                        !.currentBuzzScore = 0,
                        !.currentOnsetDetected = FALSE,
                        !.currentTransientScore = 0,
                        !.currentHighFreqEnergyScore = 0,
                        !.currentInharmonicityScore = 0]
    IN [d1 EXCEPT !.latestResult = FretBuzzResultOf(d1)]

\* ------------------------------------------------------------------------
\* StringHealthAnalyzer: constants and pure helpers
\* ------------------------------------------------------------------------
\* A frame is described by what the signal-processing calls compute for
\* it:
\*   confidence  of the pitch detected, in percent, 0 for no pitch
\*   energy      the mean harmonic energy TrackHarmonicEnergy records
\*   fit         the slope FitExponentialDecay computes from the history
\*               (dB/s)
\*   centroid    the spectral centroid (Hz)
\*   deviation   the mean relative deviation of the harmonic peaks from the
\*               multiples of the fundamental, in hundredths, before it is
\*               clamped
\* A frame whose samples are all 0: no pitch is found and the spectrum is
\* empty.  FindHarmonicPeaks then reports, for each multiple of a
\* fundamental kept from an earlier frame, the frequency of the bin below
\* it; for 110 Hz and bins of 48000 / 2048 Hz these lie off by 3 hundredths
\* on average.
StringHealthSilence ==
    [confidence |-> 0, energy |-> 0, fit |-> 0 - 20, centroid |-> 0,
     deviation |-> 3]

\* The frames: silence, and the frames with samples other than 0.
StringHealthFrames ==
    {StringHealthSilence} \cup
    [confidence : PitchConfidences, energy : 0 .. 1, fit : {0 - 100, 0 - 20},
     centroid : {0, 6000}, deviation : {0, 130}]

\* A frame of a plucked note with a confident pitch.
StringHealthNote ==
    [confidence |-> 90, energy |-> 1, fit |-> 0 - 20, centroid |-> 6000,
     deviation |-> 130]

MinDecayRate == 0 - 50         \* g_kMinDecayRate = -50 dB/s
MaxDecayRate == 0 - 5          \* g_kMaxDecayRate = -5 dB/s

StringHealthResultInit ==
    [isValid |-> FALSE, healthScore |-> 0, decayRate |-> 0,
     spectralCentroid |-> 0, inharmonicity |-> 0, fundamentalFrequency |-> 0,
     stringInfo |-> "Unknown"]

\* StringHealthAnalyzer(): the constructor's member initialisers.
StringHealthAnalyzerInit ==
    [config |-> NoConfig,
     fftProcessor |-> FALSE,
     harmonicEnergies |-> <<>>,
     timestamps |-> <<>>,
     currentFundamental |-> 0,
     analysisFrameCount |-> 0,
     currentHealthScore |-> 0,
     currentDecayRate |-> 0,
     currentSpectralCentroid |-> 0,
     currentInharmonicity |-> 0,
     currentStringInfo |-> "Unknown",
     latestResult |-> StringHealthResultInit]

\* TrackHarmonicEnergy: append to both histories and drop the oldest entry
\* when the history exceeds its size.
TrackHarmonicEnergy(h, energy, t) ==
    LET e == Append(h.harmonicEnergies, energy)
        ts == Append(h.timestamps, t)
    IN IF Len(e) > DecayHistorySize
       THEN [h EXCEPT !.harmonicEnergies = Tail(e), !.timestamps = Tail(ts)]
       ELSE [h EXCEPT !.harmonicEnergies = e, !.timestamps = ts]

\* AnalyzeDecay: 0 until the history is long enough, then the fitted slope.
AnalyzeDecay(h, fit) ==
    IF Len(h.harmonicEnergies) < MinDecaySamples THEN 0 ELSE fit

NormalizeDecayRate(decayRate) ==
    Clamp((100 * (decayRate - MinDecayRate)) \div (MaxDecayRate - MinDecayRate),
          0, 100)

NormalizeSpectralFeatures(centroid) ==
    Clamp(100 - (100 * centroid) \div 5000, 0, 100)

\* CalculateInharmonicity(currentFundamental): 0 without a fundamental;
\* FindHarmonicPeaks finds none when the sample rate is not positive.
CalculateInharmonicity(h, frame) ==
    IF h.currentFundamental <= 0 THEN 0
    ELSE IF h.config.sampleRate <= 0 THEN 0
    ELSE Clamp(frame.deviation, 0, 100)

CalculateHealthScore(h) ==
    [h EXCEPT !.currentHealthScore =
        Clamp((30 * NormalizeDecayRate(h.currentDecayRate)
               + 30 * NormalizeSpectralFeatures(h.currentSpectralCentroid)
               + 40 * (100 - h.currentInharmonicity)) \div 100, 0, 100)]

\* The result UpdateResult builds from the analyzer's fields.
StringHealthResultOf(h) ==
    [isValid |-> TRUE, healthScore |-> h.currentHealthScore,
     decayRate |-> h.currentDecayRate,
     spectralCentroid |-> h.currentSpectralCentroid,
     inharmonicity |-> h.currentInharmonicity,
     fundamentalFrequency |-> h.currentFundamental,
     stringInfo |-> h.currentStringInfo]

\* ProcessBuffer on a configured analyzer at clock reading t; a detected
\* pitch is 110 Hz, which StringDetector::Classify names "A".
StringHealthProcess(h, frame, t) ==
    LET h1 == IF frame.confidence > 50
              THEN TrackHarmonicEnergy([h EXCEPT !.currentFundamental = 110],
                                       frame.energy, t)
              ELSE h
        h2 == IF frame.confidence > 85 /\ h1.analysisFrameCount > 3
              THEN [h1 EXCEPT !.currentStringInfo = "A"]
              ELSE h1
        h3 == [h2 EXCEPT !.currentDecayRate = AnalyzeDecay(h2, frame.fit),
                         !.currentSpectralCentroid = frame.centroid,
                         !.currentInharmonicity =
                             CalculateInharmonicity(h2, frame)]
        h4 == CalculateHealthScore(h3)
    IN [h4 EXCEPT !.latestResult = StringHealthResultOf(h4),
                  !.analysisFrameCount = h4.analysisFrameCount + 1]

\* Reset(): the assignments, then UpdateResult.  currentStringInfo is not
\* assigned.
StringHealthResetFields(h) ==
    LET h1 == [h EXCEPT !.currentFundamental = 0,
                        !.analysisFrameCount = 0,
                        !.currentHealthScore = 0,
                        !.currentDecayRate = 0,
                        !.currentSpectralCentroid = 0,
                        !.currentInharmonicity = 0,
                        !.harmonicEnergies = <<>>,
                        !.timestamps = <<>>]
    IN [h1 EXCEPT !.latestResult = StringHealthResultOf(h1)]

VARIABLES
    buffer,        \* ring storage: Slots -> Sample
    old,           \* value each slot held before its last overwrite
    writeIndex,    \* std::atomic<size_t> writeIndex
    readIndex,     \* std::atomic<size_t> readIndex
    prod,          \* producer thread: position inside Write and its locals
    nextVal,       \* number of samples the audio source has produced so far
    th,            \* reader threads: position inside GetAvailableRead/Read
    outbuf,        \* output spans: processingBuffer, waveformBuffer, output
    unsync,        \* per reader: slots written but not yet acquired by it
    pending,       \* slots written by the Write in progress
    running,       \* AnalysisEngine::running
    workerThread,  \* AnalysisEngine::workerThread: joinable thread or "none"
    analyzers,     \* AnalysisEngine::analyzers (registration list)
    configured,    \* number of Configure calls each analyzer received
    ctl,           \* control thread: position inside Start/Stop
    terminated,    \* std::terminate was called
    written,       \* history: samples of the Writes that returned true
    delivered,     \* history: samples returned by Reads, in return order
    frames,        \* history: frames the worker read, with the list in force
    calls,         \* history: ProcessBuffer calls, in call order
    intonation,    \* IntonationAnalyzer: its private fields
    fretBuzz,      \* FretBuzzDetector: its private fields and latestResult
    stringHealth,  \* StringHealthAnalyzer: its private fields and latestResult
    heap,          \* IntonationResult objects: fields, or NoObject if freed
    latestResult,  \* IntonationAnalyzer::latestResult (pointer into heap)
    resultMutex,   \* IntonationAnalyzer::resultMutex: its holder, or "free"
    now,           \* the clocks' reading, in ticks
    acall,         \* per thread: position inside an IntonationAnalyzer call
    lastCall       \* history: per analyzer, the ProcessBuffer or Reset call
                   \* that returned last, whether it is a Reset that followed
                   \* a Reset, the state it found, and what is known of the
                   \* frames processed so far

ringVars == <<buffer, old, writeIndex, readIndex, unsync, pending>>
engineVars == <<running, workerThread, analyzers, configured, ctl, terminated>>
histVars == <<written, delivered, frames, calls>>
analyzerVars == <<intonation, fretBuzz, stringHealth, heap, latestResult,
                  resultMutex, now, acall, lastCall>>
vars == <<buffer, old, writeIndex, readIndex, prod, nextVal, th, outbuf,
          unsync, pending, running, workerThread, analyzers, configured,
          ctl, terminated, written, delivered, frames, calls,
          intonation, fretBuzz, stringHealth, heap, latestResult,
          resultMutex, now, acall, lastCall>>

\* Threads that call into the intonation analyzer: the engine worker
\* (ProcessBuffer), the control thread (Reset) and a result reader.
AThreads == {"worker", "control", "reader"}
AnalyzerKinds == {"Intonation", "FretBuzz", "StringHealth"}
ObjIds == 1 .. MaxObjects
NullObject == 0
NoObject == [freed |-> TRUE]

\* A thread outside any analyzer call, holding no result object.
CallInit ==
    [pc |-> "idle", pend |-> <<>>, then |-> "idle", obj |-> NullObject,
     n |-> 0]

\* State after IntonationAnalyzer(): default fields, and latestResult
\* pointing to a default-constructed IntonationResult.
AnalyzerInit ==
    /\ intonation = IntonationAnalyzerInit
    /\ fretBuzz = FretBuzzDetectorInit
    /\ stringHealth = StringHealthAnalyzerInit
    /\ heap = [o \in ObjIds |-> IF o = 1 THEN IntonationResultInit ELSE NoObject]
    /\ latestResult = 1
    /\ resultMutex = "free"
    /\ now = 0
    /\ acall = [t \in AThreads |-> CallInit]
    /\ lastCall = [x \in AnalyzerKinds |->
                      [op |-> "none", again |-> FALSE, from |-> "none",
                       quiet |-> TRUE, weak |-> FALSE,
                       since |-> 0, admitted |-> 0, fresh |-> FALSE,
                       serial |-> [o \in ObjIds |-> 0]]]

ThreadInit(pc0) ==
    [pc |-> pc0, n |-> 0, readIdx |-> 0, writeIdx |-> 0, toRead |-> 0,
     i |-> 0, ret |-> 0, available |-> 0, k |-> 0]

ProducerInit ==
    [pc |-> "idle", data |-> <<>>, writeIdx |-> 0, i |-> 0, ret |-> TRUE,
     avail |-> 0]

\* State after LockFreeRingBuffer(Capacity) and AnalysisEngine(ring, config).
RingEngineInit ==
    /\ buffer = [s \in Slots |-> 0]
    /\ old = [s \in Slots |-> 0]
    /\ writeIndex = 0
    /\ readIndex = 0
    /\ prod = ProducerInit
    /\ nextVal = 0
    /\ th = [t \in Threads |-> ThreadInit(IF t \in Workers THEN "none" ELSE "idle")]
    /\ outbuf = [o \in Owners |-> IF o = "engine" THEN Zeros(FrameSize) ELSE <<>>]
    /\ unsync = [t \in Threads |-> {}]
    /\ pending = {}
    /\ running = FALSE
    /\ workerThread = "none"
    /\ analyzers = <<>>
    /\ configured = [a \in AnalyzerIds |-> 0]
    /\ ctl = [pc |-> "idle", op |-> "none", ret |-> FALSE]
    /\ terminated = FALSE
    /\ written = <<>>
    /\ delivered = <<>>
    /\ frames = <<>>
    /\ calls = <<>>

\* State after the ring, the engine and the three analyzers are constructed.
Init ==
    /\ RingEngineInit
    /\ AnalyzerInit

\* ------------------------------------------------------------------------
\* Producer: LockFreeRingBuffer::Write
\* ------------------------------------------------------------------------
\* The next n samples of the audio stream.
Block(n) == [j \in 1 .. n |-> nextVal + j]

\* Write(data): entry, the empty-span early return, and the relaxed load of
\* the producer's own writeIndex.
WriteCall(n) ==
    /\ ~terminated
    /\ prod.pc = "idle"
    /\ nextVal + n <= MaxSamples
    /\ nextVal' = nextVal + n
    /\ IF n = 0
       THEN prod' = [prod EXCEPT !.data = <<>>, !.ret = TRUE]
       ELSE prod' = [prod EXCEPT !.pc = "loadR", !.data = Block(n),
                                 !.writeIdx = writeIndex, !.i = 0]
    /\ UNCHANGED <<analyzerVars, ringVars, th, outbuf, engineVars, histVars>>

\* Variant: the space check lets a block through that is one sample too long.
WriteLoadR_OffByOne ==
    /\ ~terminated
    /\ prod.pc = "loadR"
    /\ LET available == GetAvailableWriteInternal(prod.writeIdx, readIndex)
       IN IF available + 1 < Len(prod.data)
          THEN prod' = [prod EXCEPT !.pc = "idle", !.ret = FALSE,
                                    !.avail = available]
          ELSE prod' = [prod EXCEPT !.pc = "copy", !.avail = available]
    /\ UNCHANGED <<analyzerVars, ringVars, nextVal, th, outbuf, engineVars, histVars>>

\* Acquire load of readIndex and the space check.
WriteLoadR ==
    /\ ~terminated
    /\ prod.pc = "loadR"
    /\ LET available == GetAvailableWriteInternal(prod.writeIdx, readIndex)
       IN IF available < Len(prod.data)
          THEN prod' = [prod EXCEPT !.pc = "idle", !.ret = FALSE,
                                    !.avail = available]
          ELSE prod' = [prod EXCEPT !.pc = "copy", !.avail = available]
    /\ UNCHANGED <<analyzerVars, ringVars, nextVal, th, outbuf, engineVars, histVars>>

\* One iteration of the copy loop: buffer[(writeIdx + i) % capacity] = data[i].
WriteCopy ==
    /\ ~terminated
    /\ prod.pc = "copy"
    /\ LET s == SlotAt(prod.writeIdx, prod.i)
       IN /\ buffer' = [buffer EXCEPT ![s] = prod.data[prod.i + 1]]
          /\ old' = [old EXCEPT ![s] = buffer[s]]
          /\ pending' = pending \cup {s}
          /\ unsync' = [t \in Threads |-> unsync[t] \cup {s}]
    /\ prod' = [prod EXCEPT !.i = prod.i + 1,
                            !.pc = IF prod.i + 1 = Len(prod.data)
                                   THEN "store" ELSE "copy"]
    /\ UNCHANGED <<analyzerVars, writeIndex, readIndex, nextVal, th, outbuf, engineVars,
                   histVars>>

\* Release store of the new writeIndex; Write returns true.
WriteStore ==
    /\ ~terminated
    /\ prod.pc = "store"
    /\ writeIndex' = NextWriteIndex(prod.writeIdx, Len(prod.data))
    /\ pending' = {}
    /\ prod' = [prod EXCEPT !.pc = "idle", !.ret = TRUE, !.i = 0]
    /\ written' = written \o prod.data
    /\ UNCHANGED <<analyzerVars, buffer, old, readIndex, unsync, nextVal, th, outbuf,
                   engineVars, delivered, frames, calls>>

\* ------------------------------------------------------------------------
\* Readers: GetAvailableRead and Read, executed by thread t
\* ------------------------------------------------------------------------
\* Variant: the worker reads as soon as anything is available.
AfterAvail_AnySample(t, a) ==
    IF t \in Workers
    THEN (IF a >= 1 THEN "rd_loadR" ELSE "sleep")
    ELSE IF t = "ui"
         THEN (IF a >= WaveformSize THEN "rd_loadR" ELSE "idle")
         ELSE "idle"

\* Variant: the worker reads only when more than one frame is available.
AfterAvail_MoreThanAFrame(t, a) ==
    IF t \in Workers
    THEN (IF a > FrameSize THEN "rd_loadR" ELSE "sleep")
    ELSE IF t = "ui"
         THEN (IF a >= WaveformSize THEN "rd_loadR" ELSE "idle")
         ELSE "idle"

\* Where thread t continues after GetAvailableRead returned a.
AfterAvail(t, a) ==
    IF t \in Workers
    THEN (IF a >= FrameSize THEN "rd_loadR" ELSE "sleep")
    ELSE IF t = "ui"
         THEN (IF a >= WaveformSize THEN "rd_loadR" ELSE "idle")
         ELSE "idle"

\* Size of the span thread t passes to the Read that follows.
SpanOf(t) == IF t \in Workers THEN Len(outbuf["engine"]) ELSE WaveformSize

\* Where thread t continues after Read returned r.
AfterRead(t, r) ==
    IF t \in Workers
    THEN (IF r > 0 THEN "dispatch" ELSE "loop")
    ELSE "idle"

\* GetAvailableRead: relaxed load of readIndex.
AvailLoadR(t) ==
    /\ ~terminated
    /\ th[t].pc = "av_loadR"
    /\ th' = [th EXCEPT ![t].pc = "av_loadW", ![t].readIdx = readIndex]
    /\ UNCHANGED <<analyzerVars, ringVars, prod, nextVal, outbuf, engineVars, histVars>>

\* Variant: the count includes the samples of the Write in progress.
AvailLoadW_CountsPending(t) ==
    /\ ~terminated
    /\ th[t].pc = "av_loadW"
    /\ LET a == Min(Capacity, GetAvailableReadInternal(th[t].readIdx, writeIndex)
                                + Cardinality(pending))
           next == AfterAvail(t, a)
       IN /\ th' = [th EXCEPT ![t].pc = next,
                              ![t].available = a,
                              ![t].readIdx = 0,
                              ![t].n = IF next = "rd_loadR" THEN SpanOf(t) ELSE 0]
          /\ outbuf' = IF t = "ui" /\ next = "rd_loadR" /\ outbuf["ui"] = <<>>
                       THEN [outbuf EXCEPT !["ui"] = Zeros(WaveformSize)]
                       ELSE outbuf
    /\ unsync' = [unsync EXCEPT ![t] = pending]
    /\ UNCHANGED <<analyzerVars, buffer, old, writeIndex, readIndex, pending, prod, nextVal,
                   engineVars, histVars>>

\* GetAvailableRead: acquire load of writeIndex and the returned count.  The
\* caller's comparison of the count and (for the UI panel) the resize of its
\* waveform buffer are local and belong to the same step.
AvailLoadW(t) ==
    /\ ~terminated
    /\ th[t].pc = "av_loadW"
    /\ LET a == GetAvailableReadInternal(th[t].readIdx, writeIndex)
           next == AfterAvail(t, a)
       IN /\ th' = [th EXCEPT ![t].pc = next,
                              ![t].available = a,
                              ![t].readIdx = 0,
                              ![t].n = IF next = "rd_loadR" THEN SpanOf(t) ELSE 0]
          /\ outbuf' = IF t = "ui" /\ next = "rd_loadR" /\ outbuf["ui"] = <<>>
                       THEN [outbuf EXCEPT !["ui"] = Zeros(WaveformSize)]
                       ELSE outbuf
    /\ unsync' = [unsync EXCEPT ![t] = pending]
    /\ UNCHANGED <<analyzerVars, buffer, old, writeIndex, readIndex, pending, prod, nextVal,
                   engineVars, histVars>>

\* Read: relaxed load of the consumer's own readIndex.
ReadLoadR(t) ==
    /\ ~terminated
    /\ th[t].pc = "rd_loadR"
    /\ th' = [th EXCEPT ![t].pc = "rd_loadW", ![t].readIdx = readIndex]
    /\ UNCHANGED <<analyzerVars, ringVars, prod, nextVal, outbuf, engineVars, histVars>>

\* Variant: toRead is the size of the output span, whatever is available.
ReadLoadW_IgnoresAvailable(t) ==
    /\ ~terminated
    /\ th[t].pc = "rd_loadW"
    /\ th' = [th EXCEPT ![t].pc = "rd_copy",
                        ![t].writeIdx = writeIndex,
                        ![t].toRead = th[t].n,
                        ![t].i = 0]
    /\ unsync' = [unsync EXCEPT ![t] = pending]
    /\ UNCHANGED <<analyzerVars, buffer, old, writeIndex, readIndex, pending, prod, nextVal,
                   outbuf, engineVars, histVars>>

\* Read: acquire load of writeIndex; toRead = min(available, output.size()).
ReadLoadW(t) ==
    /\ ~terminated
    /\ th[t].pc = "rd_loadW"
    /\ LET available == GetAvailableReadInternal(th[t].readIdx, writeIndex)
           toRead == Min(available, th[t].n)
       IN th' = [th EXCEPT ![t].pc = IF toRead > 0 THEN "rd_copy" ELSE "rd_store",
                           ![t].writeIdx = writeIndex,
                           ![t].toRead = toRead,
                           ![t].i = 0]
    /\ unsync' = [unsync EXCEPT ![t] = pending]
    /\ UNCHANGED <<analyzerVars, buffer, old, writeIndex, readIndex, pending, prod, nextVal,
                   outbuf, engineVars, histVars>>

\* Values a non-atomic read of slot s by thread t can yield: the stored value,
\* or, when the producer wrote the slot without synchronising with t (a data
\* race), also the value the slot held before.
SlotValues(t, s) ==
    IF s \in unsync[t] THEN {buffer[s], old[s]} ELSE {buffer[s]}

\* One iteration of the copy loop: output[i] = buffer[(readIdx + i) % capacity].
ReadCopy(t) ==
    /\ ~terminated
    /\ th[t].pc = "rd_copy"
    /\ \E v \in SlotValues(t, SlotAt(th[t].readIdx, th[t].i)) :
          outbuf' = [outbuf EXCEPT ![OutOf(t)][th[t].i + 1] = v]
    /\ th' = [th EXCEPT ![t].i = th[t].i + 1,
                        ![t].pc = IF th[t].i + 1 = th[t].toRead
                                  THEN "rd_store" ELSE "rd_copy"]
    /\ UNCHANGED <<analyzerVars, ringVars, prod, nextVal, engineVars, histVars>>

\* Read: release store of the new readIndex; Read returns toRead.  A worker
\* that got samples has read a frame and starts dispatching it.
ReadStore(t) ==
    /\ ~terminated
    /\ th[t].pc = "rd_store"
    /\ readIndex' = NextReadIndex(th[t].readIdx, th[t].toRead)
    /\ th' = [th EXCEPT ![t].pc = AfterRead(t, th[t].toRead),
                        ![t].ret = th[t].toRead,
                        ![t].readIdx = 0, ![t].writeIdx = 0, ![t].i = 0,
                        ![t].k = 0]
    /\ delivered' = delivered \o SubSeq(outbuf[OutOf(t)], 1, th[t].toRead)
    /\ frames' = IF t \in Workers /\ th[t].toRead > 0
                 THEN Append(frames,
                             [data |-> SubSeq(outbuf["engine"], 1, th[t].toRead),
                              list |-> analyzers])
                 ELSE frames
    /\ UNCHANGED <<analyzerVars, buffer, old, writeIndex, unsync, pending, prod, nextVal,
                   outbuf, engineVars, written, calls>>

\* ------------------------------------------------------------------------
\* A free-standing consumer thread using the ring directly
\* ------------------------------------------------------------------------
\* Read(output) with an output span of n elements; an empty span returns 0
\* at once.
ConsumerRead(n) ==
    /\ th["cons"].pc = "idle"
    /\ IF n = 0
       THEN /\ th' = [th EXCEPT !["cons"].n = 0, !["cons"].toRead = 0,
                                !["cons"].ret = 0]
            /\ outbuf' = [outbuf EXCEPT !["cons"] = <<>>]
       ELSE /\ th' = [th EXCEPT !["cons"].pc = "rd_loadR", !["cons"].n = n]
            /\ outbuf' = [outbuf EXCEPT !["cons"] = Zeros(n)]
    /\ UNCHANGED <<analyzerVars, ringVars, prod, nextVal, engineVars, histVars>>

\* GetAvailableRead() called by the consumer.
ConsumerAvail ==
    /\ th["cons"].pc = "idle"
    /\ th' = [th EXCEPT !["cons"].pc = "av_loadR"]
    /\ UNCHANGED <<analyzerVars, ringVars, prod, nextVal, outbuf, engineVars, histVars>>

NextRing ==
    \/ \E n \in 0 .. (Capacity + 1) : WriteCall(n)
    \/ WriteLoadR
    \/ WriteCopy
    \/ WriteStore
    \/ \E n \in 0 .. (Capacity + 1) : ConsumerRead(n)
    \/ ConsumerAvail
    \/ AvailLoadR("cons")
    \/ AvailLoadW("cons")
    \/ ReadLoadR("cons")
    \/ ReadLoadW("cons")
    \/ ReadCopy("cons")
    \/ ReadStore("cons")

SpecRing == Init /\ [][NextRing]_vars

\* ------------------------------------------------------------------------
\* AnalysisEngine: control thread (Start, Stop, RegisterAnalyzer)
\* ------------------------------------------------------------------------
\* A worker slot no thread occupies.
FreeWorker == IF th["w1"].pc = "none" THEN "w1" ELSE "w2"

\* Variant: the analyzer is appended without the null test.
RegisterAnalyzer_NoNullCheck(a) ==
    /\ ~terminated
    /\ ctl.pc = "idle"
    /\ workerThread = "none"
    /\ Len(analyzers) < MaxAnalyzers
    /\ configured' = [configured EXCEPT ![a] = configured[a] + 1]
    /\ analyzers' = Append(analyzers, a)
    /\ ctl' = [pc |-> "idle", op |-> "Register", ret |-> (a # NullAnalyzer)]
    /\ UNCHANGED <<analyzerVars, ringVars, prod, nextVal, th, outbuf, running, workerThread,
                   terminated, histVars>>

\* RegisterAnalyzer(analyzer): a is NullAnalyzer or the analyzer object the
\* caller has just created (objects are numbered in creation order).  Callers
\* register while no worker exists.
RegisterAnalyzer(a) ==
    /\ ~terminated
    /\ ctl.pc = "idle"
    /\ workerThread = "none"
    /\ IF a # NullAnalyzer
       THEN /\ Len(analyzers) < MaxAnalyzers
            /\ configured' = [configured EXCEPT ![a] = configured[a] + 1]
            /\ analyzers' = Append(analyzers, a)
       ELSE UNCHANGED <<configured, analyzers>>
    /\ ctl' = [pc |-> "idle", op |-> "Register", ret |-> (a # NullAnalyzer)]
    /\ UNCHANGED <<analyzerVars, ringVars, prod, nextVal, th, outbuf, running, workerThread,
                   terminated, histVars>>

\* Variant: Start() sets running without testing its previous value.
StartCAS_NoCheck ==
    /\ ~terminated
    /\ ctl.pc = "idle"
    /\ running' = TRUE
    /\ ctl' = [pc |-> "start_spawn", op |-> "Start", ret |-> FALSE]
    /\ UNCHANGED <<analyzerVars, ringVars, prod, nextVal, th, outbuf, workerThread, analyzers,
                   configured, terminated, histVars>>

\* Start(): running.compare_exchange_strong(expected = false, true).
StartCAS ==
    /\ ~terminated
    /\ ctl.pc = "idle"
    /\ IF running = FALSE
       THEN /\ running' = TRUE
            /\ ctl' = [pc |-> "start_spawn", op |-> "Start", ret |-> FALSE]
       ELSE /\ running' = running
            /\ ctl' = [pc |-> "idle", op |-> "Start", ret |-> FALSE]
    /\ UNCHANGED <<analyzerVars, ringVars, prod, nextVal, th, outbuf, workerThread, analyzers,
                   configured, terminated, histVars>>

\* Start(): workerThread = std::thread(WorkerThreadFunction); return true.
\* Move-assigning to a joinable std::thread calls std::terminate.
StartSpawn ==
    /\ ~terminated
    /\ ctl.pc = "start_spawn"
    /\ IF workerThread # "none"
       THEN /\ terminated' = TRUE
            /\ UNCHANGED <<th, workerThread, ctl>>
       ELSE /\ th[FreeWorker].pc = "none"
            /\ th' = [th EXCEPT ![FreeWorker] = ThreadInit("loop")]
            /\ workerThread' = FreeWorker
            /\ ctl' = [pc |-> "idle", op |-> "Start", ret |-> TRUE]
            /\ UNCHANGED terminated
    /\ UNCHANGED <<analyzerVars, ringVars, prod, nextVal, outbuf, running, analyzers,
                   configured, histVars>>

\* Variant: Stop() clears the flag and returns without joining.
StopStore_NoJoin ==
    /\ ~terminated
    /\ ctl.pc = "idle"
    /\ running' = FALSE
    /\ ctl' = [pc |-> "idle", op |-> "Stop", ret |-> FALSE]
    /\ UNCHANGED <<analyzerVars, ringVars, prod, nextVal, th, outbuf, workerThread, analyzers,
                   configured, terminated, histVars>>

\* Stop(): running.store(false); then the joinable() test.
StopStore ==
    /\ ~terminated
    /\ ctl.pc = "idle"
    /\ running' = FALSE
    /\ ctl' = [pc |-> IF workerThread # "none" THEN "stop_join" ELSE "idle",
               op |-> "Stop", ret |-> FALSE]
    /\ UNCHANGED <<analyzerVars, ringVars, prod, nextVal, th, outbuf, workerThread, analyzers,
                   configured, terminated, histVars>>

\* Variant: the worker is detached instead of joined.
StopJoin_Detach ==
    /\ ~terminated
    /\ ctl.pc = "stop_join"
    /\ workerThread' = "none"
    /\ ctl' = [pc |-> "idle", op |-> "Stop", ret |-> TRUE]
    /\ UNCHANGED <<analyzerVars, ringVars, prod, nextVal, th, outbuf, running, analyzers,
                   configured, terminated, histVars>>

\* Variant: join() returns but the thread handle stays joinable.
StopJoin_KeepsHandle ==
    /\ ~terminated
    /\ ctl.pc = "stop_join"
    /\ th[workerThread].pc = "exited"
    /\ ctl' = [pc |-> "idle", op |-> "Stop", ret |-> TRUE]
    /\ UNCHANGED <<analyzerVars, ringVars, prod, nextVal, th, outbuf, running, workerThread,
                   analyzers, configured, terminated, histVars>>

\* Stop(): workerThread.join() returns once the worker function has returned.
StopJoin ==
    /\ ~terminated
    /\ ctl.pc = "stop_join"
    /\ th[workerThread].pc = "exited"
    /\ th' = [th EXCEPT ![workerThread] = ThreadInit("none")]
    /\ workerThread' = "none"
    /\ ctl' = [pc |-> "idle", op |-> "Stop", ret |-> TRUE]
    /\ UNCHANGED <<analyzerVars, ringVars, prod, nextVal, outbuf, running, analyzers,
                   configured, terminated, histVars>>

\* ------------------------------------------------------------------------
\* AnalysisEngine::WorkerThreadFunction, executed by thread w
\* ------------------------------------------------------------------------
\* Variant: the loop condition is never false.
WorkerLoop_IgnoresRunning(w) ==
    /\ ~terminated
    /\ th[w].pc = "loop"
    /\ th' = [th EXCEPT ![w].pc = "av_loadR"]
    /\ UNCHANGED <<analyzerVars, ringVars, prod, nextVal, outbuf, engineVars, histVars>>

\* while (running.load()): enter GetAvailableRead, or leave the function.
WorkerLoop(w) ==
    /\ ~terminated
    /\ th[w].pc = "loop"
    /\ th' = [th EXCEPT ![w].pc = IF running THEN "av_loadR" ELSE "exited"]
    /\ UNCHANGED <<analyzerVars, ringVars, prod, nextVal, outbuf, engineVars, histVars>>

\* std::this_thread::sleep_for(1ms) when less than a frame is available.
WorkerSleep(w) ==
    /\ ~terminated
    /\ th[w].pc = "sleep"
    /\ th' = [th EXCEPT ![w].pc = "loop"]
    /\ UNCHANGED <<analyzerVars, ringVars, prod, nextVal, outbuf, engineVars, histVars>>

\* Variant: the analyzer loop is abandoned once running is false.
WorkerDispatch_ChecksRunning(w) ==
    /\ ~terminated
    /\ th[w].pc = "dispatch"
    /\ IF th[w].k < Len(analyzers) /\ running
       THEN /\ th' = [th EXCEPT ![w].pc = "processing"]
            /\ calls' = Append(calls,
                   [analyzer |-> analyzers[th[w].k + 1],
                    frame |-> Len(frames),
                    data |-> SubSeq(outbuf["engine"], 1, th[w].ret)])
       ELSE /\ th' = [th EXCEPT ![w].pc = "loop", ![w].k = 0]
            /\ calls' = calls
    /\ UNCHANGED <<analyzerVars, ringVars, prod, nextVal, outbuf, engineVars, written,
                   delivered, frames>>

\* for (auto &analyzer : analyzers): call ProcessBuffer(audioData) on the
\* next analyzer, or finish the frame when the list is exhausted.
WorkerDispatch(w) ==
    /\ ~terminated
    /\ th[w].pc = "dispatch"
    /\ IF th[w].k < Len(analyzers)
       THEN /\ th' = [th EXCEPT ![w].pc = "processing"]
            /\ calls' = Append(calls,
                   [analyzer |-> analyzers[th[w].k + 1],
                    frame |-> Len(frames),
                    data |-> SubSeq(outbuf["engine"], 1, th[w].ret)])
       ELSE /\ th' = [th EXCEPT ![w].pc = "loop", ![w].k = 0]
            /\ calls' = calls
    /\ UNCHANGED <<analyzerVars, ringVars, prod, nextVal, outbuf, engineVars, written,
                   delivered, frames>>

\* The ProcessBuffer call in progress returns.
WorkerProcessReturn(w) ==
    /\ ~terminated
    /\ th[w].pc = "processing"
    /\ th' = [th EXCEPT ![w].pc = "dispatch", ![w].k = th[w].k + 1]
    /\ UNCHANGED <<analyzerVars, ringVars, prod, nextVal, outbuf, engineVars, histVars>>

NextEngine ==
    \/ \E n \in 0 .. (Capacity + 1) : WriteCall(n)
    \/ WriteLoadR
    \/ WriteCopy
    \/ WriteStore
    \/ \E a \in {NullAnalyzer, Len(analyzers) + 1} : RegisterAnalyzer(a)
    \/ StartCAS
    \/ StartSpawn
    \/ StopStore
    \/ StopJoin
    \/ \E w \in Workers : WorkerLoop(w)
    \/ \E w \in Workers : WorkerSleep(w)
    \/ \E w \in Workers : AvailLoadR(w)
    \/ \E w \in Workers : AvailLoadW(w)
    \/ \E w \in Workers : ReadLoadR(w)
    \/ \E w \in Workers : ReadLoadW(w)
    \/ \E w \in Workers : ReadCopy(w)
    \/ \E w \in Workers : ReadStore(w)
    \/ \E w \in Workers : WorkerDispatch(w)
    \/ \E w \in Workers : WorkerProcessReturn(w)

SpecEngine == Init /\ [][NextEngine]_vars

\* Any step of the worker thread w inside WorkerThreadFunction.
WorkerStep(w) ==
    \/ WorkerLoop(w)
    \/ WorkerSleep(w)
    \/ AvailLoadR(w)
    \/ AvailLoadW(w)
    \/ ReadLoadR(w)
    \/ ReadLoadW(w)
    \/ ReadCopy(w)
    \/ ReadStore(w)
    \/ WorkerDispatch(w)
    \/ WorkerProcessReturn(w)

\* The engine under a fair scheduler: a spawned worker thread that can take
\* a step eventually takes one (every ProcessBuffer call returns, sleep_for
\* ends), and join() returns once the worker function has returned.  The
\* producer and the control thread's calls are not forced to happen.
SpecEngineFair ==
    /\ Init
    /\ [][NextEngine]_vars
    /\ \A w \in Workers : WF_vars(WorkerStep(w))
    /\ WF_vars(StopJoin)

\* ------------------------------------------------------------------------
\* The engine with analyzers whose ProcessBuffer may raise
\* ------------------------------------------------------------------------
\* The ProcessBuffer call in progress throws.  WorkerThreadFunction has no
\* handler, so the exception leaves the thread's function and the runtime
\* calls std::terminate.
WorkerProcessRaise(w) ==
    /\ ~terminated
    /\ th[w].pc = "processing"
    /\ terminated' = TRUE
    /\ UNCHANGED <<analyzerVars, ringVars, prod, nextVal, th, outbuf, running, workerThread,
                   analyzers, configured, ctl, histVars>>

NextFault ==
    \/ NextEngine
    \/ \E w \in Workers : WorkerProcessRaise(w)

SpecFault == Init /\ [][NextFault]_vars

\* ------------------------------------------------------------------------
\* The assembled application: audio callback, engine worker and UI thread
\* ------------------------------------------------------------------------
\* AudioProcessingLayer::OnAudioInput: a non-empty block is handed to Write.
OnAudioInput(n) ==
    /\ n > 0
    /\ WriteCall(n)

\* TabController::OnUpdate calls OnUpdate on every panel, active or not;
\* AudioMonitorPanel::OnUpdate starts with ringBuffer->GetAvailableRead().
PanelOnUpdate ==
    /\ ~terminated
    /\ th["ui"].pc = "idle"
    /\ th' = [th EXCEPT !["ui"].pc = "av_loadR"]
    /\ UNCHANGED <<analyzerVars, ringVars, prod, nextVal, outbuf, engineVars, histVars>>

AppThreads == Workers \cup {"ui"}

\* State after Application::Application(): the analyzers are registered, the
\* engine is started (one worker at the top of its loop) and the audio
\* stream and the UI layer are about to run.
InitApp ==
    /\ buffer = [s \in Slots |-> 0]
    /\ old = [s \in Slots |-> 0]
    /\ writeIndex = 0
    /\ readIndex = 0
    /\ prod = ProducerInit
    /\ nextVal = 0
    /\ th = [t \in Threads |->
               ThreadInit(IF t = "w1" THEN "loop"
                          ELSE IF t \in Workers THEN "none" ELSE "idle")]
    /\ outbuf = [o \in Owners |-> IF o = "engine" THEN Zeros(FrameSize) ELSE <<>>]
    /\ unsync = [t \in Threads |-> {}]
    /\ pending = {}
    /\ running = TRUE
    /\ workerThread = "w1"
    /\ analyzers = [j \in 1 .. MaxAnalyzers |-> j]
    /\ configured = [a \in AnalyzerIds |-> IF a <= MaxAnalyzers THEN 1 ELSE 0]
    /\ ctl = [pc |-> "idle", op |-> "Start", ret |-> TRUE]
    /\ terminated = FALSE
    /\ written = <<>>
    /\ delivered = <<>>
    /\ frames = <<>>
    /\ calls = <<>>
    /\ AnalyzerInit

\* Application::~Application() stops the engine (StopStore, StopJoin); the
\* audio callback and the UI updates run until then.
NextApp ==
    \/ \E n \in 0 .. (Capacity + 1) : OnAudioInput(n)
    \/ WriteLoadR
    \/ WriteCopy
    \/ WriteStore
    \/ StopStore
    \/ StopJoin
    \/ PanelOnUpdate
    \/ \E w \in Workers : WorkerLoop(w)
    \/ \E w \in Workers : WorkerSleep(w)
    \/ \E t \in AppThreads : AvailLoadR(t)
    \/ \E t \in AppThreads : AvailLoadW(t)
    \/ \E t \in AppThreads : ReadLoadR(t)
    \/ \E t \in AppThreads : ReadLoadW(t)
    \/ \E t \in AppThreads : ReadCopy(t)
    \/ \E t \in AppThreads : ReadStore(t)
    \/ \E w \in Workers : WorkerDispatch(w)
    \/ \E w \in Workers : WorkerProcessReturn(w)

SpecApp == InitApp /\ [][NextApp]_vars

\* ------------------------------------------------------------------------
\* IntonationAnalyzer: result objects
\* ------------------------------------------------------------------------
\* lastCall after call op of analyzer x, which found the analyzer in from.
Called(x, op, from) ==
    [lastCall EXCEPT ![x] = [op |-> op,
                             again |-> (op = "Reset" /\ lastCall[x].op = "Reset"),
                             from |-> from,
                             quiet |-> lastCall[x].quiet,
                             weak |-> (op = "ProcessBuffer" /\ lastCall[x].weak),
                             since |-> IF op = "Reset" THEN 0
                                       ELSE lastCall[x].since,
                             admitted |-> IF op = "Reset" THEN 0
                                          ELSE lastCall[x].admitted,
                             fresh |-> lastCall[x].fresh,
                             serial |-> lastCall[x].serial]]

\* lastCall after a ProcessBuffer of analyzer x; silent tells whether the
\* frame was what an all-zero frame gives, confidence is that of the pitch
\* detected in it (0 for none).  quiet stays TRUE as long as every frame the
\* analyzer was given was silent; weak tells that this frame had no pitch
\* of confidence 0.5 or more.  since and admitted count the frames whose
\* pitch the analyzer accumulated (admit), since it entered its state and
\* since construction or Reset; no more than MinStableCount are counted for
\* one state, and the frame on which the analyzer changes its state (moved)
\* counts for the state it leaves.  Both are kept by the whole-call actions.
\* fresh tells that the fret-buzz detector was given a configuration and no
\* frame since.  serial numbers the result objects in the order in which
\* UpdateResult stored them in latestResult, where calls are followed step
\* by step (0: the object the slot held at the start).
Processed(x, from, silent, confidence, admit, moved) ==
    LET n == IF admit THEN Min(MinStableCount, lastCall[x].since + 1)
             ELSE lastCall[x].since
    IN [lastCall EXCEPT ![x] = [op |-> "ProcessBuffer",
                                again |-> FALSE,
                                from |-> from,
                                quiet |-> lastCall[x].quiet /\ silent,
                                weak |-> confidence < 50,
                                since |-> IF moved THEN 0 ELSE n,
                                admitted |-> lastCall[x].admitted
                                                + n - lastCall[x].since,
                                fresh |-> FALSE,
                                serial |-> lastCall[x].serial]]

engineSide == <<ringVars, prod, nextVal, th, outbuf, engineVars, histVars>>
intonationVars == <<intonation, heap, latestResult, resultMutex, acall>>

\* The lowest-numbered free object: what make_shared returns next.
FreshObject == CHOOSE o \in ObjIds :
                   /\ heap[o] = NoObject
                   /\ \A q \in ObjIds : q < o => heap[q] # NoObject

\* The heap after latestResult stops pointing to object o.
Unpublished(h, o) ==
    IF \A u \in AThreads : acall[u].obj # o
    THEN [h EXCEPT ![o] = NoObject]
    ELSE h

\* ------------------------------------------------------------------------
\* IntonationAnalyzer called from one thread, one whole call per step
\* ------------------------------------------------------------------------
\* UpdateResult(): a fresh IntonationResult is filled from the fields a and
\* installed as latestResult; the object it replaces loses one owner.
UpdateResult(a) ==
    /\ \E o \in ObjIds : heap[o] = NoObject
    /\ latestResult' = FreshObject
    /\ heap' = [Unpublished(heap, latestResult) EXCEPT
                   ![FreshObject] = ResultOf(a)]

\* Configure(newConfig): the configuration is stored and the pitch
\* detector is created.
IntonationConfigure(newConfig) ==
    /\ intonation' = [intonation EXCEPT !.config = newConfig,
                                        !.pitchDetector = TRUE]
    /\ UNCHANGED <<engineSide, fretBuzz, stringHealth, heap, latestResult,
                   resultMutex, now, acall, lastCall>>

\* ProcessBuffer(audioData); detection is what pitchDetector->Detect
\* returns for the frame.  Without a detector the call returns at once.
IntonationProcessBuffer(detection) ==
    /\ IF ~intonation.pitchDetector
       THEN UNCHANGED <<intonation, heap, latestResult>>
       ELSE /\ intonation' = ProcessDetection(intonation, detection, now)
            /\ UpdateResult(intonation')
    /\ lastCall' = Processed("Intonation", intonation.currentState,
                              detection = NoPitch, detection.confidence,
                              /\ intonation.pitchDetector
                              /\ detection.confidence >= ConfidenceThreshold,
                              intonation'.currentState # intonation.currentState)
    /\ UNCHANGED <<engineSide, fretBuzz, stringHealth, resultMutex, now, acall>>

\* Reset().
IntonationReset ==
    /\ intonation' = ResetFields(intonation, now)
    /\ UpdateResult(intonation')
    /\ lastCall' = Called("Intonation", "Reset", intonation.currentState)
    /\ UNCHANGED <<engineSide, fretBuzz, stringHealth, resultMutex, now, acall>>

\* steady_clock and system_clock advance.
Tick ==
    /\ now < MaxTime
    /\ now' = now + 1
    /\ UNCHANGED <<engineSide, intonationVars, fretBuzz, stringHealth, lastCall>>

NextIntonation ==
    \/ \E newConfig \in UsualConfigs : IntonationConfigure(newConfig)
    \/ \E detection \in Detections : IntonationProcessBuffer(detection)
    \/ IntonationReset
    \/ Tick

SpecIntonation == Init /\ [][NextIntonation]_vars

\* ------------------------------------------------------------------------
\* FretBuzzDetector and StringHealthAnalyzer, one whole call per step
\* ------------------------------------------------------------------------
\* Configure(newConfig): the configuration is stored, the pitch detector
\* and the FFT processor are created.  FFTProcessor belongs to the GuitarDSP
\* library: whether its constructor accepts a non-positive sample rate or
\* throws, leaving fftProcessor as it was, is open.
FretBuzzConfigure(newConfig) ==
    /\ \E accepted \in (IF newConfig.sampleRate > 0 THEN {TRUE} ELSE BOOLEAN) :
          fretBuzz' = [fretBuzz EXCEPT !.config = newConfig,
                                      !.fftProcessor = accepted \/ @]
    /\ lastCall' = [lastCall EXCEPT !["FretBuzz"].fresh = TRUE]
    /\ UNCHANGED <<engineSide, intonationVars, stringHealth, now>>

\* Variant: the frame is processed whether or not Configure was called.
FretBuzzProcessBuffer_NoGuard(frame) ==
    /\ fretBuzz' = FretBuzzProcess(fretBuzz, frame)
    /\ lastCall' = Processed("FretBuzz", "none", frame = FretBuzzSilence,
                              frame.confidence, FALSE, FALSE)
    /\ UNCHANGED <<engineSide, intonationVars, stringHealth, now>>

\* ProcessBuffer(audioData); without the processors the call returns at once.
FretBuzzProcessBuffer(frame) ==
    /\ fretBuzz' = IF fretBuzz.fftProcessor
                   THEN FretBuzzProcess(fretBuzz, frame)
                   ELSE fretBuzz
    /\ lastCall' = Processed("FretBuzz", "none", frame = FretBuzzSilence,
                              frame.confidence, FALSE, FALSE)
    /\ UNCHANGED <<engineSide, intonationVars, stringHealth, now>>

\* Reset().
FretBuzzReset ==
    /\ fretBuzz' = FretBuzzResetFields(fretBuzz)
    /\ lastCall' = Called("FretBuzz", "Reset", "none")
    /\ UNCHANGED <<engineSide, intonationVars, stringHealth, now>>

\* Configure(newConfig): as FretBuzzDetector::Configure.
StringHealthConfigure(newConfig) ==
    /\ \E accepted \in (IF newConfig.sampleRate > 0 THEN {TRUE} ELSE BOOLEAN) :
          stringHealth' = [stringHealth EXCEPT !.config = newConfig,
                                              !.fftProcessor = accepted \/ @]
    /\ UNCHANGED <<engineSide, intonationVars, fretBuzz, now, lastCall>>

\* ProcessBuffer(audioData); without the processors the call returns at once.
StringHealthProcessBuffer(frame) ==
    /\ stringHealth.analysisFrameCount < MaxFrameCount
    /\ stringHealth' = IF stringHealth.fftProcessor
                       THEN StringHealthProcess(stringHealth, frame, now)
                       ELSE stringHealth
    /\ lastCall' = Processed("StringHealth", "none",
                              frame = StringHealthSilence, frame.confidence,
                              FALSE, FALSE)
    /\ UNCHANGED <<engineSide, intonationVars, fretBuzz, now>>

\* Reset().
StringHealthReset ==
    /\ stringHealth' = StringHealthResetFields(stringHealth)
    /\ lastCall' = Called("StringHealth", "Reset", "none")
    /\ UNCHANGED <<engineSide, intonationVars, fretBuzz, now>>

\* Analyzer x has been configured.
Configured(x) ==
    CASE x = "Intonation" -> intonation.pitchDetector
      [] x = "FretBuzz" -> fretBuzz.fftProcessor
      [] x = "StringHealth" -> stringHealth.fftProcessor

\* Analyzer x is the one this behaviour exercises: no call of another
\* analyzer has been made.
Exercised(x) ==
    \A y \in AnalyzerKinds \ {x} : lastCall[y].op = "none" /\ ~Configured(y)

\* One analyzer object of any of the three classes, called from one thread.
NextAnalyzers ==
    \/ Tick
    \/ /\ Exercised("Intonation")
       /\ \/ \E newConfig \in UsualConfigs : IntonationConfigure(newConfig)
          \/ \E detection \in Detections : IntonationProcessBuffer(detection)
          \/ IntonationReset
    \/ /\ Exercised("FretBuzz")
       /\ \/ \E newConfig \in UsualConfigs : FretBuzzConfigure(newConfig)
          \/ \E frame \in FretBuzzFrames : FretBuzzProcessBuffer(frame)
          \/ FretBuzzReset
    \/ /\ Exercised("StringHealth")
       /\ \/ \E newConfig \in UsualConfigs : StringHealthConfigure(newConfig)
          \/ \E frame \in StringHealthFrames : StringHealthProcessBuffer(frame)
          \/ StringHealthReset

SpecAnalyzers == Init /\ [][NextAnalyzers]_vars

\* ------------------------------------------------------------------------
\* One analyzer given any configuration, then frames
\* ------------------------------------------------------------------------
\* The detection of a frame of the open A string.
OpenA == [frequency |-> 110, confidence |-> ConfidenceThreshold]

NextConfigure ==
    \/ /\ Exercised("Intonation")
       /\ \/ \E newConfig \in Configs : IntonationConfigure(newConfig)
          \/ \E detection \in {NoPitch, OpenA} : IntonationProcessBuffer(detection)
    \/ /\ Exercised("FretBuzz")
       /\ \/ \E newConfig \in Configs : FretBuzzConfigure(newConfig)
          \/ \E frame \in {FretBuzzSilence, FretBuzzNote} :
                FretBuzzProcessBuffer(frame)
    \/ /\ Exercised("StringHealth")
       /\ \/ \E newConfig \in Configs : StringHealthConfigure(newConfig)
          \/ \E frame \in {StringHealthSilence, StringHealthNote} :
                StringHealthProcessBuffer(frame)

SpecConfigure == Init /\ [][NextConfigure]_vars

\* ------------------------------------------------------------------------
\* IntonationAnalyzer under concurrent calls: the engine worker inside
\* ProcessBuffer, the control thread inside Reset, a reader inside
\* GetLatestResult.  Every assignment to a field is one step.
\* ------------------------------------------------------------------------
Callers == {"worker", "control"}

\* The ProcessBuffer and Reset calls that have returned; each has stored
\* one result.
Returned == acall["worker"].n + acall["control"].n

\* The numbering s of the result objects, without the objects that are
\* gone from the heap h.
Numbered(s, h) == [o \in ObjIds |-> IF h[o] = NoObject THEN 0 ELSE s[o]]

\* The GetLatestResult calls the reader makes meanwhile: as many as the
\* other threads make calls, and no fewer than two, so that it gets two
\* results in succession.
MaxReads == IF MaxCalls < 2 THEN 2 ELSE MaxCalls

\* The call a thread makes.
CallOf(t) == IF t = "worker" THEN "ProcessBuffer" ELSE "Reset"

\* The assignments of the transition that leads to the fields b, in source
\* order; CalculateDeviation follows the one of TransitionToComplete.
TransitionWrites(b) ==
    CASE b.currentState = "OpenString" ->
            <<[field |-> "currentState", value |-> b.currentState],
              [field |-> "openStringFreq", value |-> b.openStringFreq],
              [field |-> "pitchCount", value |-> 0],
              [field |-> "stateStartTime", value |-> b.stateStartTime]>>
      [] b.currentState = "WaitFor12thFret" ->
            <<[field |-> "currentState", value |-> b.currentState],
              [field |-> "pitchCount", value |-> 0],
              [field |-> "stateStartTime", value |-> b.stateStartTime]>>
      [] b.currentState = "FrettedString" ->
            <<[field |-> "currentState", value |-> b.currentState],
              [field |-> "frettedStringFreq", value |-> b.frettedStringFreq],
              [field |-> "pitchCount", value |-> 0],
              [field |-> "stateStartTime", value |-> b.stateStartTime]>>
      [] b.currentState = "Complete" ->
            <<[field |-> "currentState", value |-> b.currentState]>>

\* The assignments of Reset at clock reading t, in source order.
ResetWrites(t) ==
    <<[field |-> "currentState", value |-> "Idle"],
      [field |-> "pitchCount", value |-> 0],
      [field |-> "pitchAccumulator", value |-> Zeros(PitchAccumulatorSize)],
      [field |-> "openStringFreq", value |-> 0],
      [field |-> "frettedStringFreq", value |-> 0],
      [field |-> "centDeviation", value |-> 0],
      [field |-> "isInTune", value |-> FALSE],
      [field |-> "stateStartTime", value |-> t]>>

\* The fields a after the assignment w.
Assigned(a, w) == [a EXCEPT ![w.field] = w.value]

\* The detections of the frames processed while Reset may be running: no
\* pitch, the open A string, its octave.
RacingDetections ==
    {NoPitch} \cup {[frequency |-> f, confidence |-> ConfidenceThreshold] :
                        f \in {110, 220}}

\* ProcessBuffer is entered with the frame's detection; a confident pitch
\* goes through AccumulatePitch to UpdateStateMachine, anything else
\* straight to UpdateResult.
ProcessBufferCall(detection) ==
    /\ acall["worker"].pc = "idle"
    /\ acall["worker"].n < MaxCalls
    /\ intonation.pitchDetector
    /\ IF detection # NoPitch /\ detection.confidence >= ConfidenceThreshold
       THEN /\ intonation' = AccumulatePitch(intonation, detection.frequency)
            /\ acall' = [acall EXCEPT !["worker"].pc = "switch"]
       ELSE /\ acall' = [acall EXCEPT !["worker"].pc = "ur_alloc"]
            /\ UNCHANGED intonation
    /\ lastCall' = [lastCall EXCEPT
                       !["Intonation"].quiet = @ /\ detection = NoPitch,
                       !["Intonation"].weak = detection.confidence < 50]
    /\ UNCHANGED <<engineSide, fretBuzz, stringHealth, heap, latestResult,
                   resultMutex, now>>

\* UpdateStateMachine: the switch on currentState and the tests of the
\* selected case; a transition's assignments follow one by one.
ProcessBufferSwitch ==
    /\ acall["worker"].pc = "switch"
    /\ LET b == UpdateStateMachine(intonation, now)
       IN acall' = [acall EXCEPT
                       !["worker"].pc =
                           IF b = intonation THEN "ur_alloc" ELSE "write",
                       !["worker"].pend =
                           IF b = intonation THEN <<>> ELSE TransitionWrites(b),
                       !["worker"].then =
                           IF b # intonation /\ b.currentState = "Complete"
                           THEN "calc_dev" ELSE "ur_alloc"]
    /\ UNCHANGED <<engineSide, intonation, fretBuzz, stringHealth, heap,
                   latestResult, resultMutex, now, lastCall>>

\* Reset is entered and makes its first assignment.
ResetCall ==
    /\ acall["control"].pc = "idle"
    /\ acall["control"].n < MaxCalls
    /\ intonation' = Assigned(intonation, Head(ResetWrites(now)))
    /\ acall' = [acall EXCEPT !["control"].pc = "write",
                              !["control"].pend = Tail(ResetWrites(now)),
                              !["control"].then = "ur_alloc"]
    /\ UNCHANGED <<engineSide, fretBuzz, stringHealth, heap, latestResult,
                   resultMutex, now, lastCall>>

\* The next assignment of the transition or of Reset.
CallWrite(t) ==
    /\ acall[t].pc = "write"
    /\ intonation' = Assigned(intonation, Head(acall[t].pend))
    /\ acall' = [acall EXCEPT
                    ![t].pend = Tail(acall[t].pend),
                    ![t].pc = IF Len(acall[t].pend) = 1 THEN acall[t].then
                              ELSE "write"]
    /\ UNCHANGED <<engineSide, fretBuzz, stringHealth, heap, latestResult,
                   resultMutex, now, lastCall>>

\* TransitionToComplete: CalculateDeviation().
ProcessBufferCalculateDeviation ==
    /\ acall["worker"].pc = "calc_dev"
    /\ intonation' = CalculateDeviation(intonation)
    /\ acall' = [acall EXCEPT !["worker"].pc = "ur_alloc"]
    /\ UNCHANGED <<engineSide, fretBuzz, stringHealth, heap, latestResult,
                   resultMutex, now, lastCall>>

\* The result r after UpdateResult's first three assignments from fields a.
FilledFirst(r, a) ==
    [r EXCEPT !.isValid = TRUE, !.state = a.currentState,
              !.openStringFrequency = a.openStringFreq]

\* The result r after UpdateResult's remaining assignments from fields a.
FilledRest(r, a) ==
    [r EXCEPT !.frettedStringFrequency = a.frettedStringFreq,
              !.expectedFrettedFrequency = a.openStringFreq * 2,
              !.centDeviation = a.centDeviation,
              !.isInTune = a.isInTune]

\* Variant: UpdateResult fills the published object instead of a new one.
UpdateResultAlloc_InPlace(t) ==
    /\ acall[t].pc = "ur_alloc"
    /\ heap' = [heap EXCEPT ![latestResult] = FilledFirst(@, intonation)]
    /\ acall' = [acall EXCEPT ![t].pc = "ur_fill", ![t].obj = latestResult]
    /\ UNCHANGED <<engineSide, intonation, fretBuzz, stringHealth,
                   latestResult, resultMutex, now, lastCall>>

\* UpdateResult: result = std::make_shared<IntonationResult>(), then
\* isValid, state and openStringFrequency are assigned.
UpdateResultAlloc(t) ==
    /\ acall[t].pc = "ur_alloc"
    /\ \E o \in ObjIds : heap[o] = NoObject
    /\ heap' = [heap EXCEPT ![FreshObject] =
                    FilledFirst(IntonationResultInit, intonation)]
    /\ acall' = [acall EXCEPT ![t].pc = "ur_fill", ![t].obj = FreshObject]
    /\ UNCHANGED <<engineSide, intonation, fretBuzz, stringHealth,
                   latestResult, resultMutex, now, lastCall>>

\* UpdateResult: the remaining fields are assigned.
UpdateResultFill(t) ==
    /\ acall[t].pc = "ur_fill"
    /\ heap' = [heap EXCEPT ![acall[t].obj] = FilledRest(@, intonation)]
    /\ acall' = [acall EXCEPT ![t].pc = "ur_lock"]
    /\ UNCHANGED <<engineSide, intonation, fretBuzz, stringHealth,
                   latestResult, resultMutex, now, lastCall>>

\* UpdateResult: std::lock_guard<std::mutex> lock(resultMutex).
UpdateResultLock(t) ==
    /\ acall[t].pc = "ur_lock"
    /\ resultMutex = "free"
    /\ resultMutex' = t
    /\ acall' = [acall EXCEPT ![t].pc = "ur_swap"]
    /\ UNCHANGED <<engineSide, intonation, fretBuzz, stringHealth, heap,
                   latestResult, now, lastCall>>

\* UpdateResult: latestResult = std::move(result); the replaced object
\* loses an owner, the mutex is released and the call returns.
UpdateResultSwap(t) ==
    /\ acall[t].pc = "ur_swap"
    /\ latestResult' = acall[t].obj
    /\ heap' = IF latestResult = acall[t].obj THEN heap
               ELSE Unpublished(heap, latestResult)
    /\ resultMutex' = "free"
    /\ acall' = [acall EXCEPT ![t] = [CallInit EXCEPT !.n = acall[t].n + 1]]
    /\ lastCall' = [Called("Intonation", CallOf(t), intonation.currentState)
                       EXCEPT !["Intonation"].serial =
                                 Numbered([@ EXCEPT ![acall[t].obj] =
                                                        Returned + 1], heap')]
    /\ UNCHANGED <<engineSide, intonation, fretBuzz, stringHealth, now>>

\* GetLatestResult: std::lock_guard<std::mutex> lock(resultMutex).
GetLatestResultLock ==
    /\ acall["reader"].pc = "idle"
    /\ acall["reader"].n < MaxReads
    /\ resultMutex = "free"
    /\ resultMutex' = "reader"
    /\ acall' = [acall EXCEPT !["reader"].pc = "gl_copy"]
    /\ UNCHANGED <<engineSide, intonation, fretBuzz, stringHealth, heap,
                   latestResult, now, lastCall>>

\* Variant: a caller that holds a snapshot is handed that snapshot again.
GetLatestResultCopy_KeepsSnapshot ==
    /\ acall["reader"].pc = "gl_copy"
    /\ resultMutex' = "free"
    /\ acall' = [acall EXCEPT !["reader"].pc = "idle",
                              !["reader"].obj =
                                  IF @ = NullObject THEN latestResult ELSE @,
                              !["reader"].n = @ + 1]
    /\ UNCHANGED <<engineSide, intonation, fretBuzz, stringHealth, heap,
                   latestResult, now, lastCall>>

\* GetLatestResult: return latestResult.  The caller's pointer replaces the
\* snapshot it held, which loses an owner; the mutex is released.
GetLatestResultCopy ==
    /\ acall["reader"].pc = "gl_copy"
    /\ LET held == acall["reader"].obj
       IN heap' = IF held # NullObject /\ held # latestResult
                     /\ \A u \in Callers : acall[u].obj # held
                  THEN [heap EXCEPT ![held] = NoObject]
                  ELSE heap
    /\ resultMutex' = "free"
    /\ acall' = [acall EXCEPT !["reader"].pc = "idle",
                              !["reader"].obj = latestResult,
                              !["reader"].n = @ + 1]
    /\ lastCall' = [lastCall EXCEPT
                       !["Intonation"].serial = Numbered(@, heap')]
    /\ UNCHANGED <<engineSide, intonation, fretBuzz, stringHealth,
                   latestResult, now>>

RECURSIVE Replay(_, _)
\* The fields after ProcessBuffer has processed, one call at a time, the
\* frames whose pitches and clock readings are listed in q.
Replay(a, q) ==
    IF q = <<>> THEN a
    ELSE Replay(ProcessDetection(a, [frequency |-> Head(q).frequency,
                                     confidence |-> ConfidenceThreshold],
                                 Head(q).t),
                Tail(q))

\* n frames of frequency f at clock reading t.
Frames(n, f, t) == [j \in 1 .. n |-> [frequency |-> f, t |-> t]]

\* The frames of a measurement of the A string up to the one that makes
\* transition k (1: to OpenString ... 4: to Complete), that one left out.
FramesBefore(k) ==
    LET whole == Frames(MinStableCount, 110, 0)
                 \o Frames(MinStableCount, 110, StableTimeRequired)
                 \o Frames(MinStableCount, 220, StableTimeRequired)
                 \o Frames(MinStableCount, 220, 2 * StableTimeRequired)
    IN SubSeq(whole, 1, k * MinStableCount - 1)

\* The clock reading at which transition k is due.
DueTime(k) == IF k = 1 THEN 0
              ELSE IF k = 4 THEN 2 * StableTimeRequired
              ELSE StableTimeRequired

\* The engine's worker calls ProcessBuffer of a configured intonation
\* analyzer whose measurement is one frame before one of its four
\* transitions; every call so far has returned.
InitReset ==
    /\ RingEngineInit
    /\ fretBuzz = FretBuzzDetectorInit
    /\ stringHealth = StringHealthAnalyzerInit
    /\ resultMutex = "free"
    /\ acall = [t \in AThreads |-> CallInit]
    /\ latestResult = 1
    /\ \E k \in 1 .. 4 :
          LET a == Replay([IntonationAnalyzerInit EXCEPT
                              !.config = CHOOSE c \in UsualConfigs : TRUE,
                              !.pitchDetector = TRUE],
                          FramesBefore(k))
          IN /\ intonation = a
             /\ now = DueTime(k)
             /\ heap = [o \in ObjIds |-> IF o = 1 THEN ResultOf(a) ELSE NoObject]
             /\ lastCall = [x \in AnalyzerKinds |->
                               IF x = "Intonation"
                               THEN [op |-> "ProcessBuffer", again |-> FALSE,
                                     from |-> a.currentState,
                                     quiet |-> FramesBefore(k) = <<>>,
                                     weak |-> FALSE,
                                     since |-> MinStableCount - 1,
                                     admitted |-> Len(FramesBefore(k)),
                                     fresh |-> FALSE,
                                     serial |-> [o \in ObjIds |-> 0]]
                               ELSE [op |-> "none", again |-> FALSE,
                                     from |-> "none", quiet |-> TRUE,
                                     weak |-> FALSE,
                                     since |-> 0, admitted |-> 0,
                                     fresh |-> FALSE,
                                     serial |-> [o \in ObjIds |-> 0]]]

NextReset ==
    \/ \E detection \in RacingDetections : ProcessBufferCall(detection)
    \/ ProcessBufferSwitch
    \/ ProcessBufferCalculateDeviation
    \/ ResetCall
    \/ \E t \in Callers : CallWrite(t)
    \/ \E t \in Callers : UpdateResultAlloc(t)
    \/ \E t \in Callers : UpdateResultFill(t)
    \/ \E t \in Callers : UpdateResultLock(t)
    \/ \E t \in Callers : UpdateResultSwap(t)
    \/ GetLatestResultLock
    \/ GetLatestResultCopy

SpecReset == InitReset /\ [][NextReset]_vars

\* ========================================================================
\* Properties
\* ========================================================================
\* Spec-level counts, from the data model: readable = (writeIdx - readIdx)
\* mod (C + 1), writable = C - readable.
Readable(w, r) == (w - r) % (Capacity + 1)
Writable(w, r) == Capacity - Readable(w, r)

\* The step in which Write decides between copying and returning false.
WriteDecides == prod.pc = "loadR" /\ prod'.pc # "loadR"

\* The step in which Write returns true.
WriteReturnsTrue == prod.pc = "store" /\ prod'.pc = "idle"

\* The step in which the consumer's Read returns.
ConsumerReadReturns == th["cons"].pc = "rd_store" /\ th'["cons"].pc # "rd_store"

\* C1: with one producer calling Write and one consumer calling Read, in
\* every interleaving of their loads, slot copies and stores, the samples
\* returned by successive Reads form a prefix of the concatenation of the
\* accepted Writes (nothing duplicated, skipped or reordered), and the
\* consumer never copies a slot the producer wrote without synchronising
\* with it (nothing is read before it was written).
C1_ReadsArePrefixOfWrites ==
    /\ IsPrefix(delivered, written)
    /\ th["cons"].pc = "rd_copy" =>
          SlotAt(th["cons"].readIdx, th["cons"].i) \notin unsync["cons"]

\* The indices have wrapped (writeIndex is behind readIndex) and the consumer
\* is copying a slot while the producer is copying inside a Write.
C1_Witness ==
    /\ Len(delivered) >= Capacity
    /\ th["cons"].pc = "rd_copy"
    /\ prod.pc = "copy"
    /\ writeIndex < readIndex

\* C2: Write is all-or-nothing.  When it decides, it goes on to copy iff the
\* writable space is at least |data|; otherwise (always when |data| exceeds
\* the capacity) it returns false with writeIndex, readIndex and the buffer
\* untouched.  When it returns true, all of data is stored from the old
\* writeIndex on and writeIndex has advanced by |data|.  An empty Write
\* returns true at once and changes nothing.
C2_WriteAllOrNothing ==
    [][ /\ WriteDecides =>
              IF Writable(writeIndex, readIndex) >= Len(prod.data)
              THEN prod'.pc = "copy" /\ Len(prod.data) <= Capacity
              ELSE /\ prod'.pc = "idle"
                   /\ prod'.ret = FALSE
                   /\ UNCHANGED <<writeIndex, readIndex, buffer>>
        /\ WriteReturnsTrue =>
              /\ prod'.ret = TRUE
              /\ writeIndex' = (writeIndex + Len(prod.data)) % (Capacity + 1)
              /\ \A j \in 1 .. Len(prod.data) :
                    buffer'[(writeIndex + j - 1) % (Capacity + 1)] = prod.data[j]
        /\ (prod.pc = "idle" /\ prod'.pc = "idle" /\ prod' # prod) =>
              /\ prod'.data = <<>>
              /\ prod'.ret = TRUE
              /\ UNCHANGED <<writeIndex, readIndex, buffer>>
      ]_vars

\* A block that would fit an empty ring was rejected because unread samples
\* occupy the space.
C2_Witness ==
    /\ prod.pc = "idle"
    /\ prod.ret = FALSE
    /\ Len(prod.data) <= Capacity
    /\ Len(written) > Len(delivered)

\* C3: both indices stay in [0, C]; the counts the ring computes are
\* readable = (writeIdx - readIdx) mod (C + 1) and writable = C - readable,
\* so they add up to C; an empty ring accepts a write of exactly C samples
\* and a ring holding C samples rejects every non-empty write.
C3_IndexAndCountInvariant ==
    /\ [](/\ writeIndex \in 0 .. Capacity
          /\ readIndex \in 0 .. Capacity
          /\ GetAvailableReadInternal(readIndex, writeIndex)
                = Readable(writeIndex, readIndex)
          /\ GetAvailableReadInternal(readIndex, writeIndex)
                + GetAvailableWriteInternal(writeIndex, readIndex) = Capacity)
    /\ [][ WriteDecides =>
             /\ (writeIndex = readIndex /\ Len(prod.data) = Capacity)
                   => prod'.pc = "copy"
             /\ (Readable(writeIndex, readIndex) = Capacity)
                   => (prod'.pc = "idle" /\ prod'.ret = FALSE)
         ]_vars

\* The ring holds C samples and a one-sample Write has just been rejected.
C3_Witness ==
    /\ Readable(writeIndex, readIndex) = Capacity
    /\ prod.pc = "idle"
    /\ prod.ret = FALSE
    /\ Len(prod.data) = 1

\* C4: Read returns n = min(readable, |out|), where readable is the count at
\* its load of writeIndex; out[0..n) holds the n oldest unread samples in
\* write order; readIndex advances by exactly n, so the readable count drops
\* by exactly n in the returning step.
C4_ReadReturnsOldest ==
    [][ ConsumerReadReturns =>
          LET n == th'["cons"].ret
          IN /\ n = Min(Readable(th["cons"].writeIdx, readIndex), th["cons"].n)
             /\ Len(delivered) + n <= Len(written)
             /\ SubSeq(outbuf["cons"], 1, n)
                   = SubSeq(written, Len(delivered) + 1, Len(delivered) + n)
             /\ readIndex' = (readIndex + n) % (Capacity + 1)
             /\ Readable(writeIndex', readIndex')
                   = Readable(writeIndex, readIndex) - n
      ]_vars

\* A partial read: the output span was larger than the readable count, and
\* a read that left samples behind came before it.
C4_Witness ==
    /\ th["cons"].pc = "idle"
    /\ th["cons"].ret > 0
    /\ th["cons"].ret < th["cons"].n
    /\ Len(delivered) > th["cons"].ret

\* Positions inside LockFreeRingBuffer::Read.
ReadPcs == {"rd_loadR", "rd_loadW", "rd_copy", "rd_store"}

\* Threads that exist (spawned and not yet joined).
LiveWorkers == {w \in Workers : th[w].pc # "none"}

\* Workers inside a ProcessBuffer call.
Processing == {w \in Workers : th[w].pc = "processing"}

\* C5: in the assembled application only the engine worker calls Read and
\* moves readIndex; no other thread, in particular no UI panel update, is
\* ever inside Read.
C5_OnlyWorkerReads ==
    /\ [](\A t \in Threads \ Workers : th[t].pc \notin ReadPcs)
    /\ [][readIndex' # readIndex =>
             \E w \in Workers : th[w].pc = "rd_store" /\ th'[w].pc # "rd_store"
         ]_vars

\* C6: with the worker as the only reader, the j-th frame it reads is the
\* j-th FrameSize-sample chunk of the accepted writes, and every
\* ProcessBuffer call receives exactly that chunk: FrameSize samples, in
\* write order, nothing skipped, duplicated or split differently.
C6_FramesAreChunksOfWrites ==
    /\ \A j \in 1 .. Len(frames) :
          /\ Len(written) >= j * FrameSize
          /\ frames[j].data
                = SubSeq(written, (j - 1) * FrameSize + 1, j * FrameSize)
    /\ \A c \in 1 .. Len(calls) :
          /\ Len(calls[c].data) = FrameSize
          /\ Len(written) >= calls[c].frame * FrameSize
          /\ calls[c].data
                = SubSeq(written, (calls[c].frame - 1) * FrameSize + 1,
                         calls[c].frame * FrameSize)

\* An analyzer is processing the second frame while the producer is copying
\* further samples into the ring.
C6_Witness ==
    /\ Len(frames) = 2
    /\ Processing # {}
    /\ prod.pc = "copy"

\* The ProcessBuffer calls the first n frames require: for each frame, one
\* call per analyzer of the list in force, in list order, with the frame.
RECURSIVE ExpectedCalls(_)
ExpectedCalls(n) ==
    IF n = 0
    THEN <<>>
    ELSE ExpectedCalls(n - 1) \o
         [m \in 1 .. Len(frames[n].list) |->
             [analyzer |-> frames[n].list[m], frame |-> n,
              data |-> frames[n].data]]

\* C7: for every frame the worker reads, each registered analyzer is called
\* exactly once with that frame, in registration order, before the next
\* frame is read; once no worker is dispatching (also after Stop()) every
\* frame read has been delivered to the whole list.
C7_EveryAnalyzerOncePerFrame ==
    /\ IsPrefix(calls, ExpectedCalls(Len(frames)))
    /\ Len(frames) > 0 =>
          Len(calls) >= Len(ExpectedCalls(Len(frames) - 1))
    /\ (\A w \in Workers : th[w].pc \notin {"dispatch", "processing"}) =>
          calls = ExpectedCalls(Len(frames))

\* Stop() has cleared running while the first of two analyzers is still
\* processing the frame.
C7_Witness ==
    /\ ~running
    /\ ctl.pc = "stop_join"
    /\ Len(analyzers) = 2
    /\ \E w \in Workers : th[w].pc = "processing" /\ th[w].k = 0

\* C8: after any sequence of Start()/Stop() calls at most one worker thread
\* exists and at most one ProcessBuffer call is in progress.
C8_NoConcurrentProcessFrame ==
    /\ Cardinality(LiveWorkers) <= 1
    /\ Cardinality(Processing) <= 1

\* A ProcessBuffer call is in progress after a second Start() was attempted
\* and a frame had already been processed.
C8_Witness ==
    /\ Processing # {}
    /\ ctl = [pc |-> "idle", op |-> "Start", ret |-> FALSE]
    /\ Len(frames) = 2

\* C9: Start() proceeds to spawn exactly when running was false, and then
\* sets running; the spawn adds exactly one worker and Start() returns
\* true.  When running was true Start() returns false and changes neither
\* running nor the worker threads.
C9_StartOnlyWhenNotRunning ==
    [][ /\ (ctl.pc = "idle" /\ ctl'.pc = "start_spawn") =>
              (~running /\ running' /\ LiveWorkers' = LiveWorkers)
        /\ (ctl.pc = "idle" /\ ctl'.pc = "idle" /\ ctl'.op = "Start"
              /\ ctl' # ctl) =>
              /\ running
              /\ ctl'.ret = FALSE
              /\ UNCHANGED <<running, workerThread, th>>
        /\ (ctl.pc = "start_spawn" /\ ctl' # ctl) =>
              /\ ctl' = [pc |-> "idle", op |-> "Start", ret |-> TRUE]
              /\ running'
              /\ ~terminated'
              /\ LiveWorkers = {}
              /\ LiveWorkers' = {workerThread'}
        /\ (ctl.pc = "start_spawn" /\ ctl' = ctl) =>
              UNCHANGED <<running, workerThread, terminated>>
      ]_vars

\* A second Start() has returned false on a running engine.
C9_Witness ==
    /\ ctl = [pc |-> "idle", op |-> "Start", ret |-> FALSE]
    /\ running
    /\ Cardinality(LiveWorkers) = 1

\* C10: whenever the engine is not running and no Start()/Stop() call is in
\* progress (in particular once Stop() has returned, until the next
\* successful Start()), no worker exists and no ProcessBuffer call is in
\* progress or begins; Stop() on an engine that is not running returns at
\* once and changes nothing.
C10_StoppedMeansJoined ==
    /\ []((ctl.pc = "idle" /\ ~running) =>
             (LiveWorkers = {} /\ workerThread = "none"))
    /\ []((ctl.pc = "idle" /\ ctl.op = "Stop") => ~running)
    /\ [][ /\ (ctl.pc = "idle" /\ ~running /\ ctl'.op = "Stop" /\ ctl' # ctl) =>
                 /\ ctl'.pc = "idle"
                 /\ UNCHANGED <<running, workerThread, th, analyzers,
                                ringVars, histVars>>
           /\ (ctl.pc = "idle" /\ ~running /\ ctl'.pc = "idle") =>
                 calls' = calls
         ]_vars

\* Stop() has joined a worker that had processed a frame, and a second
\* Stop() has returned since.
C10_Witness ==
    /\ ctl = [pc |-> "idle", op |-> "Stop", ret |-> FALSE]
    /\ ~running
    /\ Len(calls) > 0

\* C11: Stop() always terminates.  Under a fair scheduler, whenever Stop()
\* has cleared running and waits in join(), the worker leaves its loop and
\* Stop() returns, whatever the ring holds and whatever the producer does;
\* and once running is false the worker at the top of its loop never starts
\* another frame (it can only leave), so at most the frame already under
\* way is finished.
C11_StopTerminates ==
    /\ (ctl.pc = "stop_join") ~> (ctl.pc = "idle" /\ workerThread = "none")
    /\ [][\A w \in Workers :
            (th[w].pc = "loop" /\ ~running /\ th'[w] # th[w]) =>
                th'[w].pc = "exited"]_vars

\* Stop() waits in join(), the worker has left its loop although a whole
\* frame is still readable in the ring and the producer is inside a Write.
C11_Witness ==
    /\ ctl.pc = "stop_join"
    /\ th[workerThread].pc = "exited"
    /\ Len(frames) > 0
    /\ Readable(writeIndex, readIndex) >= FrameSize
    /\ prod.pc = "copy"

\* C12: the engine is restartable.  Whenever the control thread calls
\* Start() on a stopped engine (initially or after any number of Start/Stop
\* cycles) the call claims the running flag, never hits a still joinable
\* thread handle, and returns true with running set and exactly one worker,
\* which is at the top of its loop and goes on to read frames from the ring.
C12_Restartable ==
    [][ /\ (ctl.pc = "idle" /\ ~running /\ ctl'.op = "Start" /\ ctl' # ctl) =>
              (ctl'.pc = "start_spawn" /\ running')
        /\ ctl.pc = "start_spawn" => ~terminated'
        /\ (ctl.pc = "start_spawn" /\ ctl'.pc = "idle") =>
              /\ ctl'.ret = TRUE
              /\ running'
              /\ LiveWorkers' = {workerThread'}
              /\ th'[workerThread'].pc = "loop"
      ]_vars

\* A second cycle has delivered a frame: one frame was dispatched to a
\* single analyzer, the engine was stopped (analyzers are registered only
\* while no worker exists), a second analyzer was registered, and after a
\* further Start() returned true the new worker read a later frame.
C12_Witness ==
    /\ ctl = [pc |-> "idle", op |-> "Start", ret |-> TRUE]
    /\ running
    /\ \E i, j \in 1 .. Len(frames) :
          /\ i < j
          /\ Len(frames[i].list) = 1
          /\ Len(frames[j].list) = 2

\* The analyzers that are in the registration list.
Registered(list) == {list[i] : i \in 1 .. Len(list)}

\* C13: RegisterAnalyzer with a null analyzer changes neither the
\* registration list nor any analyzer's Configure count.  Every change of
\* the list or of a Configure count is one RegisterAnalyzer call of the
\* control thread with a non-null analyzer: the call has returned, the
\* analyzer received exactly one Configure call, it is the new last element
\* of the list, and no worker took part in the step.
C13_RegisterNullOrConfigureOnce ==
    [][ /\ (ctl'.op = "Register" /\ ctl'.ret = FALSE) =>
              UNCHANGED <<analyzers, configured>>
        /\ (analyzers' # analyzers \/ configured' # configured) =>
              /\ ctl' = [pc |-> "idle", op |-> "Register", ret |-> TRUE]
              /\ th' = th
              /\ \E a \in AnalyzerIds :
                    /\ a # NullAnalyzer
                    /\ analyzers' = Append(analyzers, a)
                    /\ configured' = [configured EXCEPT ![a] = configured[a] + 1]
        /\ \A a \in AnalyzerIds :
              configured'[a] = IF a \in Registered(analyzers') THEN 1 ELSE 0
      ]_vars

\* A null analyzer was registered after a non-null one: the list still
\* holds the one analyzer, configured once.
C13_Witness ==
    /\ ctl = [pc |-> "idle", op |-> "Register", ret |-> FALSE]
    /\ analyzers = <<1>>
    /\ configured[1] = 1

\* C14: a ProcessBuffer call that raises is contained by the worker.  While
\* a worker is inside a ProcessBuffer call, whichever way the call ends the
\* process is not terminated, the registration list is unchanged (the
\* failing analyzer stays registered) and the worker moves on to the next
\* analyzer of the same frame.
C14_RaiseIsContained ==
    [][ \A w \in Workers :
          th[w].pc = "processing" =>
              /\ ~terminated'
              /\ analyzers' = analyzers
              /\ \/ th'[w] = th[w]
                 \/ /\ th'[w].pc = "dispatch"
                    /\ th'[w].k = th[w].k + 1
      ]_vars

\* The published intonation result, and the fields that describe the
\* measurement.
Published == heap[latestResult]
Measurement(r) ==
    <<r.state, r.openStringFrequency, r.frettedStringFrequency,
      r.centDeviation, r.isInTune>>

\* No call of the intonation analyzer is under way.
Quiescent == \A t \in AThreads : acall[t].pc = "idle"

\* What every sequence of whole Reset and ProcessBuffer calls leaves behind:
\* the published result shows the analyzer's fields, and the fields are
\* those of one state of the measurement (nothing measured in Idle, the
\* open string alone up to WaitFor12thFret, both strings and no deviation
\* in FrettedString, the deviation of the two strings in Complete).
SerialOutcome ==
    LET a == intonation
    IN /\ Measurement(Published) = Measurement(ResultOf(a))
       /\ Published.expectedFrettedFrequency = 2 * a.openStringFreq
       /\ CASE a.currentState = "Idle" ->
                   /\ a.openStringFreq = 0 /\ a.frettedStringFreq = 0
                   /\ a.centDeviation = 0 /\ ~a.isInTune
            [] a.currentState \in {"OpenString", "WaitFor12thFret"} ->
                   /\ a.openStringFreq # 0 /\ a.frettedStringFreq = 0
                   /\ a.centDeviation = 0 /\ ~a.isInTune
            [] a.currentState = "FrettedString" ->
                   /\ a.openStringFreq # 0 /\ a.frettedStringFreq # 0
                   /\ a.centDeviation = 0 /\ ~a.isInTune
            [] a.currentState = "Complete" ->
                   /\ a.openStringFreq # 0 /\ a.frettedStringFreq # 0
                   /\ a = CalculateDeviation(a)

\* C15: a Reset that runs while the worker is inside ProcessBuffer is atomic
\* for the analyzer.  Once both calls have returned, the analyzer's fields
\* and its published result are what one of the two serial orders leaves:
\* the result shows the fields, and the fields belong to one state of the
\* measurement, never partly to the reset and partly to the frame.
C15_ResetAtomicPerAnalyzer == Quiescent => SerialOutcome

\* A result object a reader can reach: the published one, or the snapshot
\* the reader holds.
Visible(o) == latestResult = o \/ acall["reader"].obj = o

\* C16: GetLatestResult returns the previously published result or the
\* complete new one, and a held snapshot is never modified.  No object a
\* reader can reach is one UpdateResult is still writing; and no step of
\* ProcessBuffer or Reset changes a field of such an object (the object
\* goes away only when its last owner has let go of it).
C16_SnapshotsWholeAndImmutable ==
    /\ [](\A o \in ObjIds :
            Visible(o) =>
               /\ heap[o] # NoObject
               /\ \A t \in Callers :
                     acall[t].obj = o => acall[t].pc \in {"ur_lock", "ur_swap"})
    /\ [][\A o \in ObjIds :
            Visible(o) =>
               \/ heap'[o] = heap[o]
               \/ heap'[o] = NoObject /\ ~Visible(o)'
         ]_vars

\* The reader holds the result ProcessBuffer published, and Reset has since
\* published its own.
C16_Witness ==
    /\ acall["reader"].obj \notin {NullObject, latestResult}
    /\ heap[acall["reader"].obj].state # "Idle"
    /\ lastCall["Intonation"].op = "Reset"
    /\ Published.state = "Idle"

\* C17: the intonation state moves only along Idle -> OpenString ->
\* WaitFor12thFret -> FrettedString -> Complete.  Every step that changes
\* the state either is a ProcessBuffer call that moves it to its immediate
\* successor, or is a Reset call, the only call that makes it Idle; the
\* published state follows the analyzer's state.
C17_StateMovesForwardByOne ==
    [][ /\ intonation'.currentState # intonation.currentState =>
              \/ /\ lastCall'["Intonation"].op = "ProcessBuffer"
                 /\ StateRank(intonation'.currentState) =
                        StateRank(intonation.currentState) + 1
              \/ /\ lastCall'["Intonation"].op = "Reset"
                 /\ intonation'.currentState = "Idle"
        /\ Published'.state # Published.state =>
              Published'.state = intonation'.currentState
      ]_vars

\* The measurement has gone through every state and is complete.
C17_Witness ==
    /\ intonation.currentState = "Complete"
    /\ Published.state = "Complete"
    /\ intonation.openStringFreq > 0
    /\ intonation.frettedStringFreq > 0

\* C18: Complete is terminal.  From a state in which the analyzer and the
\* published result are Complete, every step other than a Reset call
\* leaves the published state, openStringFrequency, frettedStringFrequency,
\* centDeviation and isInTune as they are, whatever the frame holds.
C18_CompleteIsTerminal ==
    [][ ( /\ intonation.currentState = "Complete"
          /\ Published.state = "Complete"
          /\ ~(lastCall'["Intonation"].op = "Reset" /\ latestResult' # latestResult) ) =>
            /\ Measurement(Published') = Measurement(Published)
            /\ intonation'.currentState = "Complete"
      ]_vars

\* After completion, frames with other pitches have been processed: the
\* accumulator holds enough pitches but they are no longer stable.
C18_Witness ==
    /\ intonation.currentState = "Complete"
    /\ Published.state = "Complete"
    /\ Published.centDeviation # 0
    /\ intonation.pitchCount >= MinStableCount
    /\ ~HasStablePitch(intonation)

\* C19: when the call that returned last is Reset, the analyzer is Idle
\* with an empty, zeroed accumulator and zero frequencies, and the published
\* result is valid with state Idle, openStringFrequency 0,
\* frettedStringFrequency 0, centDeviation 0 and isInTune false.
C19_ResetPostcondition ==
    lastCall["Intonation"].op = "Reset" =>
        /\ intonation.currentState = "Idle"
        /\ intonation.pitchCount = 0
        /\ intonation.pitchAccumulator = Zeros(PitchAccumulatorSize)
        /\ intonation.openStringFreq = 0
        /\ intonation.frettedStringFreq = 0
        /\ intonation.centDeviation = 0
        /\ intonation.isInTune = FALSE
        /\ Published.isValid
        /\ Measurement(Published) = <<"Idle", 0, 0, 0, FALSE>>
        /\ Published.expectedFrettedFrequency = 0

\* Reset has returned after it found the measurement complete.
C19_Witness ==
    /\ lastCall["Intonation"].op = "Reset"
    /\ lastCall["Intonation"].from = "Complete"
    /\ Published.state = "Idle"

\* What Reset determines of each analyzer: every private field except the
\* configuration, the signal-processing objects Configure creates and the
\* time stamps, and the published result.
ResetView(x) ==
    CASE x = "Intonation" ->
            <<[intonation EXCEPT !.config = NoConfig, !.pitchDetector = FALSE,
                                 !.stateStartTime = 0],
              Published>>
      [] x = "FretBuzz" ->
            <<[fretBuzz EXCEPT !.config = NoConfig, !.fftProcessor = FALSE]>>
      [] x = "StringHealth" ->
            <<[stringHealth EXCEPT !.config = NoConfig,
                                   !.fftProcessor = FALSE]>>

\* C20: Reset is idempotent for each of the three analyzers.  When the call
\* of an analyzer that returned last is Reset and its next call is Reset
\* again, the second call leaves the private fields and the published
\* result fields (time stamps aside) exactly as the first one left them.
C20_ResetTwiceIsResetOnce ==
    [][ \A x \in AnalyzerKinds :
          (lastCall[x].op = "Reset" /\ lastCall'[x].op = "Reset") =>
              ResetView(x)' = ResetView(x)
      ]_vars

\* The fret-buzz detector has classified a string, and was then reset twice
\* in a row: the scores are cleared, the string is still named.
C20_Witness ==
    /\ lastCall["FretBuzz"].op = "Reset"
    /\ lastCall["FretBuzz"].again
    /\ fretBuzz.latestResult.stringInfo = "A"
    /\ fretBuzz.latestResult.buzzScore = 0
    /\ fretBuzz.latestResult.isValid

\* C21: the intonation analyzer leaves OpenString (for WaitFor12thFret) and
\* FrettedString (for Complete) no earlier than 500 ms after the stateStart
\* stamped on entering the state, and only on a frame at which the
\* accumulated pitch is stable.  stateStartTime is the clock reading of the
\* step that entered OpenString or FrettedString and stays so while the
\* state lasts; the step that leaves finds the clock at least
\* StableTimeRequired later and a confident pitch whose accumulation is
\* stable.
C21_LeavesAfterDwellOnStablePitch ==
    [][ LET a == intonation
            b == intonation'
        IN /\ (a.currentState # b.currentState
               /\ b.currentState \in {"OpenString", "FrettedString"})
                  => b.stateStartTime = now
           /\ (a.currentState = b.currentState
               /\ a.currentState \in {"OpenString", "FrettedString"})
                  => b.stateStartTime = a.stateStartTime
           /\ (\/ a.currentState = "OpenString" /\ b.currentState = "WaitFor12thFret"
               \/ a.currentState = "FrettedString" /\ b.currentState = "Complete")
                  => /\ now - a.stateStartTime >= StableTimeRequired
                     /\ \E d \in Detections :
                           /\ d.confidence >= ConfidenceThreshold
                           /\ HasStablePitch(AccumulatePitch(a, d.frequency))
                           /\ b.pitchAccumulator =
                                 AccumulatePitch(a, d.frequency).pitchAccumulator
      ]_vars

\* The call that returned last found FrettedString and left Complete, the
\* dwell time after the stamp being over.
C21_Witness ==
    /\ intonation.currentState = "Complete"
    /\ lastCall["Intonation"].op = "ProcessBuffer"
    /\ lastCall["Intonation"].from = "FrettedString"
    /\ now - intonation.stateStartTime >= StableTimeRequired
    /\ HasStablePitch(intonation)

\* |fretted - 2 * open| < 0.1 * (2 * open), in whole Hz.
InOctaveBand(fretted, open) == 10 * Abs(fretted - 2 * open) < 2 * open

\* C22: whenever the intonation state is FrettedString or Complete, the
\* captured frettedStringFreq lies within 10% of twice the captured
\* openStringFreq; and the analyzer leaves WaitFor12thFret only by Reset or
\* for FrettedString with a captured pitch inside that band, so a stable
\* pitch outside it (the open string still ringing) keeps it waiting.
C22_FrettedWithinTenPercentOfOctave ==
    /\ [](intonation.currentState \in {"FrettedString", "Complete"}
            => /\ InOctaveBand(intonation.frettedStringFreq,
                               intonation.openStringFreq)
               /\ Published.state = intonation.currentState
               /\ InOctaveBand(Published.frettedStringFrequency,
                               Published.openStringFrequency))
    /\ [][ (intonation.currentState = "WaitFor12thFret"
            /\ intonation'.currentState # "WaitFor12thFret")
              => \/ intonation'.currentState = "Idle"
                 \/ /\ intonation'.currentState = "FrettedString"
                    /\ intonation'.openStringFreq = intonation.openStringFreq
                    /\ InOctaveBand(intonation'.frettedStringFreq,
                                    intonation.openStringFreq)
         ]_vars

\* The open string is still ringing while the analyzer waits for the 12th
\* fret: the last frame found WaitFor12thFret, the accumulated pitch is
\* stable and equals the open string's, and the analyzer still waits.
C22_Witness ==
    /\ intonation.currentState = "WaitFor12thFret"
    /\ lastCall["Intonation"].op = "ProcessBuffer"
    /\ lastCall["Intonation"].from = "WaitFor12thFret"
    /\ HasStablePitch(intonation)
    /\ ~InOctaveBand(GetStablePitch(intonation), intonation.openStringFreq)

\* What a caller can observe of analyzer x and what its next calls depend
\* on: every private field except the signal-processing objects Configure
\* creates, and the published result.
AnalyzerView(x) ==
    CASE x = "Intonation" ->
            <<[intonation EXCEPT !.pitchDetector = FALSE], Published, latestResult>>
      [] x = "FretBuzz" -> <<[fretBuzz EXCEPT !.fftProcessor = FALSE]>>
      [] x = "StringHealth" -> <<[stringHealth EXCEPT !.fftProcessor = FALSE]>>

\* C23: ProcessBuffer on an analyzer that was never configured is a no-op.
\* A step after which the call that returned last is ProcessBuffer, taken
\* while the analyzer is and stays unconfigured, changes none of its fields
\* and leaves the published result (the same object, for the intonation
\* analyzer) in place.
C23_UnconfiguredProcessIsNoOp ==
    [][ \A x \in AnalyzerKinds :
          (~Configured(x) /\ ~Configured(x)' /\ lastCall'[x].op = "ProcessBuffer")
              => AnalyzerView(x)' = AnalyzerView(x)
      ]_vars

\* An unconfigured fret-buzz detector was reset, which published a valid
\* result, and was then given a frame: the result is still the one Reset
\* published.
C23_Witness ==
    /\ ~Configured("FretBuzz")
    /\ lastCall["FretBuzz"].op = "ProcessBuffer"
    /\ fretBuzz.latestResult.isValid
    /\ fretBuzz.latestResult = FretBuzzResultOf(FretBuzzDetectorInit)

\* The configuration analyzer x holds.
ConfigOf(x) ==
    CASE x = "Intonation" -> intonation.config
      [] x = "FretBuzz" -> fretBuzz.config
      [] x = "StringHealth" -> stringHealth.config

\* C24: Configure with a non-positive sampleRate or a zero frameSize is
\* refused.  No analyzer is configured with such a configuration, and a
\* ProcessBuffer call that follows the refused Configure changes nothing
\* and publishes nothing.
C24_BadConfigureRefused ==
    /\ [](\A x \in AnalyzerKinds :
            Configured(x) => ConfigOf(x).sampleRate > 0 /\ ConfigOf(x).bufferSize > 0)
    /\ [][ \A x \in AnalyzerKinds :
             ((ConfigOf(x).sampleRate <= 0 \/ ConfigOf(x).bufferSize <= 0)
              /\ ConfigOf(x)' = ConfigOf(x)
              /\ lastCall'[x].op = "ProcessBuffer")
                 => AnalyzerView(x)' = AnalyzerView(x)
         ]_vars

\* The range of a score: [0, 1], in hundredths.
InUnitRange(x) == x \in 0 .. 100

C26_SilenceGivesZeroResult ==
    [][ /\ ( /\ intonation.pitchDetector
             /\ lastCall'["Intonation"].op = "ProcessBuffer"
             /\ lastCall'["Intonation"].quiet
             /\ latestResult' # latestResult ) =>
               LET r == heap'[latestResult']
               IN /\ r.isValid
                  /\ r.openStringFrequency = 0
                  /\ r.frettedStringFrequency = 0
                  /\ r.expectedFrettedFrequency = 0
                  /\ r.centDeviation = 0
        /\ ( /\ fretBuzz.fftProcessor
             /\ lastCall'["FretBuzz"].op = "ProcessBuffer"
             /\ lastCall'["FretBuzz"].quiet
             /\ fretBuzz' # fretBuzz ) =>
               LET r == fretBuzz'.latestResult
               IN /\ r.isValid
                  /\ r.buzzScore = 0
                  /\ r.transientScore = 0
                  /\ r.highFreqEnergyScore = 0
                  /\ r.inharmonicityScore = 0
        /\ ( /\ stringHealth.fftProcessor
             /\ lastCall'["StringHealth"].op = "ProcessBuffer"
             /\ lastCall'["StringHealth"].quiet
             /\ stringHealth' # stringHealth ) =>
               LET r == stringHealth'.latestResult
               IN /\ r.isValid
                  /\ r.healthScore = 0
                  /\ r.decayRate = 0
                  /\ r.spectralCentroid = 0
                  /\ r.inharmonicity = 0
                  /\ r.fundamentalFrequency = 0 ]_vars

\* C27: the spectral flux of a frame is measured against the spectrum of
\* the frame before it; a frame after a sounding one (previous RMS above 0)
\* whose spectrum rises by more than 1.5 over the previous frame's is
\* published with onsetDetected = true, whatever its RMS ratio.
C27_FluxAgainstPreviousFrameDeclaresOnset ==
    [][ ( /\ fretBuzz.fftProcessor
          /\ lastCall'["FretBuzz"].op = "ProcessBuffer"
          /\ fretBuzz.prevRMS > 0
          /\ 2 * CalculateSpectralFlux(fretBuzz'.prevSpectrum,
                                       fretBuzz.prevSpectrum) > 3 ) =>
            fretBuzz'.latestResult.onsetDetected ]_vars

\* C28: when a frame of silence (RMS 0) is followed by a loud frame, the
\* result published for the loud frame has onsetDetected = true.
C28_OnsetAfterSilence ==
    [][ ( /\ fretBuzz.fftProcessor
          /\ lastCall["FretBuzz"].op = "ProcessBuffer"
          /\ lastCall'["FretBuzz"].op = "ProcessBuffer"
          /\ fretBuzz.latestResult.isValid
          /\ fretBuzz.prevRMS = 0
          /\ fretBuzz'.prevRMS = FretBuzzNote.rms ) =>
            fretBuzz'.latestResult.onsetDetected ]_vars

\* C29: for a frame in which no pitch, or a pitch of confidence below 0.5,
\* is detected, the published pitch-dependent sub-scores are 0: the
\* fret-buzz inharmonicityScore and the string-health inharmonicity,
\* whatever pitch was accepted on earlier frames.
C29_NoPitchGivesZeroInharmonicity ==
    [][ /\ ( /\ fretBuzz.fftProcessor
             /\ lastCall'["FretBuzz"].op = "ProcessBuffer"
             /\ lastCall'["FretBuzz"].weak ) =>
               fretBuzz'.latestResult.inharmonicityScore = 0
        /\ ( /\ stringHealth.fftProcessor
             /\ lastCall'["StringHealth"].op = "ProcessBuffer"
             /\ lastCall'["StringHealth"].weak ) =>
               stringHealth'.latestResult.inharmonicity = 0 ]_vars

\* The steps a Write in progress still has to take: the load of readIndex
\* with the space check, one copy per sample, the store of writeIndex.
RemainingWriteSteps(p) ==
    CASE p.pc = "idle" -> 0
      [] p.pc = "loadR" -> Len(p.data) + 2
      [] p.pc = "copy" -> Len(p.data) - p.i + 1
      [] p.pc = "store" -> 1

\* C30: the producer path never waits on the consumer.  A Write in progress
\* can always take its next step, each of its steps brings it nearer to its
\* return (at most |data| + 2 steps) and nothing else touches its progress;
\* every call of the audio callback hands Write the next block of the stream
\* once, a block Write refused is never written later, so the accepted
\* samples are in stream order, and the frames the worker reads are the
\* accepted samples in that order.
C30_ProducerNeverWaitsBlocksInOrder ==
    /\ []( /\ (~terminated /\ prod.pc # "idle") =>
                 ENABLED (WriteLoadR \/ WriteCopy \/ WriteStore)
           /\ (prod.pc = "idle" /\ ~prod.ret) =>
                 \A j \in 1 .. Len(prod.data) :
                    \A k \in 1 .. Len(written) : written[k] # prod.data[j]
           /\ \A k \in 1 .. Len(written) - 1 : written[k] < written[k + 1]
           /\ \A j \in 1 .. Len(frames) :
                 /\ Len(written) >= j * FrameSize
                 /\ frames[j].data
                       = SubSeq(written, (j - 1) * FrameSize + 1, j * FrameSize) )
    /\ [][ prod' # prod =>
              IF prod.pc = "idle"
              THEN /\ prod'.data = [j \in 1 .. Len(prod'.data) |-> nextVal + j]
                   /\ nextVal' = nextVal + Len(prod'.data)
                   /\ prod'.pc = "loadR"
              ELSE /\ prod'.data = prod.data
                   /\ RemainingWriteSteps(prod') < RemainingWriteSteps(prod)
         ]_vars

\* C31: the count GetAvailableRead returned to the single consumer (the
\* engine worker) is a lower bound that stays valid until that consumer's
\* Read: from the return of GetAvailableRead to the loads of the Read that
\* follows, whatever the producer writes meanwhile, the ring holds at least
\* that many readable samples; a Read of no more samples than the count
\* therefore takes exactly as many as it was asked for.
C31_AvailableReadIsLowerBound ==
    \A w \in Workers :
       /\ th[w].pc \in {"rd_loadR", "rd_loadW"} =>
             /\ th[w].n <= th[w].available
             /\ th[w].available <= Readable(writeIndex, readIndex)
       /\ th[w].pc \in {"rd_copy", "rd_store"} =>
             /\ th[w].n <= th[w].available
             /\ th[w].toRead = th[w].n

\* GetAvailableRead returned exactly one frame's worth to the worker, the
\* producer has completed a further Write since, and the worker's Read of
\* that many samples is about to return them.
C31_Witness ==
    \E w \in Workers :
       /\ th[w].pc = "rd_store"
       /\ th[w].available = FrameSize
       /\ th[w].toRead = FrameSize
       /\ Readable(writeIndex, readIndex) > th[w].available

\* Frame j has been handed to every analyzer of the list in force.
Dispatched(j) ==
    \A m \in 1 .. Len(frames[j].list) :
       \E c \in 1 .. Len(calls) :
          calls[c].frame = j /\ calls[c].analyzer = frames[j].list[m]

\* C32: under fair scheduling of the worker, whenever the engine is running
\* (its worker spawned) and the ring holds at least FrameSize samples, the
\* worker eventually reads a further frame unless the engine is stopped
\* first, and every frame it has read is eventually passed to ProcessBuffer
\* of every registered analyzer; a worker that finds fewer than FrameSize
\* samples reads nothing, sleeps and polls again.
C32_WorkerEventuallyProcessesFrame ==
    /\ \A k \in 0 .. (MaxSamples \div FrameSize) :
          ( /\ running
            /\ workerThread # "none"
            /\ Len(frames) = k
            /\ Readable(writeIndex, readIndex) >= FrameSize )
          ~> (~running \/ Len(frames) > k)
    /\ \A j \in 1 .. (MaxSamples \div FrameSize) :
          (Len(frames) >= j) ~> (Len(frames) >= j /\ Dispatched(j))
    /\ [][ \A w \in Workers :
             /\ (th[w].pc = "av_loadW" /\ th'[w] # th[w]) =>
                   IF th'[w].available >= FrameSize
                   THEN th'[w].pc = "rd_loadR"
                   ELSE /\ th'[w].pc = "sleep"
                        /\ UNCHANGED <<readIndex, frames, delivered, calls>>
             /\ (th[w].pc = "sleep" /\ th'[w] # th[w]) =>
                   /\ th'[w].pc = "loop"
                   /\ UNCHANGED <<readIndex, frames, delivered, calls>>
             /\ (th[w].pc = "loop" /\ th'[w] # th[w] /\ running) =>
                   th'[w].pc = "av_loadR"
       ]_vars

\* The running engine has passed its first frame to both registered
\* analyzers and a second frame is waiting in the ring while the worker
\* polls.
C32_Witness ==
    /\ running
    /\ Len(analyzers) = 2
    /\ Len(frames) = 1
    /\ Dispatched(1)
    /\ Readable(writeIndex, readIndex) >= FrameSize
    /\ \E w \in Workers : th[w].pc = "av_loadR"

\* C33: the state-machine step is evaluated on every ProcessBuffer call of
\* a configured intonation analyzer, also for a frame in which no pitch was
\* found (nothing is accumulated): the state after the call is the one
\* UpdateStateMachine gives for the accumulator as it stands.  In
\* particular a frame without pitch, processed in OpenString with a stable
\* accumulator at least 500 ms after entry, moves the analyzer to
\* WaitFor12thFret.
C33_StateMachineStepsOnEveryFrame ==
    [][ ( /\ intonation.pitchDetector
          /\ lastCall'["Intonation"].op = "ProcessBuffer"
          /\ lastCall'["Intonation"].weak
          /\ latestResult' # latestResult ) =>
            intonation'.currentState
               = UpdateStateMachine(intonation, now).currentState ]_vars

\* C34: every advancing transition needs MinStableCount pitches admitted
\* since the current state was entered (or since construction or Reset), the
\* pitch that triggers it included and not carried over: OpenString,
\* WaitFor12thFret and FrettedString are entered with an empty accumulator.
\* Hence a state of rank r is reached only after (r - 1) * MinStableCount
\* admitted frames, Complete after four times MinStableCount.
C34_AdvanceNeedsFreshStablePitches ==
    /\ [](lastCall["Intonation"].admitted >=
             (StateRank(intonation.currentState) - 1) * MinStableCount)
    /\ [][ StateRank(intonation'.currentState) > StateRank(intonation.currentState) =>
             /\ lastCall'["Intonation"].op = "ProcessBuffer"
             /\ lastCall["Intonation"].since + 1 >= MinStableCount
             /\ intonation.pitchCount + 1 >= MinStableCount
             /\ lastCall'["Intonation"].since = 0
             /\ intonation'.currentState \in {"OpenString", "WaitFor12thFret",
                                               "FrettedString"} =>
                   intonation'.pitchCount = 0 ]_vars

C34_Witness ==
    /\ intonation.currentState = "Complete"
    /\ lastCall["Intonation"].op = "ProcessBuffer"
    /\ lastCall["Intonation"].from = "FrettedString"
    /\ lastCall["Intonation"].admitted = 4 * MinStableCount

\* C35: in every published intonation result the measured fields are zero
\* until the state that captures them: Idle has no open-string frequency,
\* Idle, OpenString and WaitFor12thFret have no fretted frequency, and every
\* state but Complete has deviation 0 and isInTune false; the open-string
\* frequency, captured on leaving Idle, changes only by Reset.
C35_FieldsZeroUntilCaptured ==
    /\ [](/\ Published.state = "Idle" => Published.openStringFrequency = 0
          /\ Published.state \in {"Idle", "OpenString", "WaitFor12thFret"} =>
                Published.frettedStringFrequency = 0
          /\ Published.state # "Complete" =>
                Published.centDeviation = 0 /\ ~Published.isInTune)
    /\ [][ heap'[latestResult'].openStringFrequency # Published.openStringFrequency =>
             \/ lastCall'["Intonation"].op = "Reset"
             \/ /\ Published.state = "Idle"
                /\ Published.openStringFrequency = 0
                /\ heap'[latestResult'].state = "OpenString" ]_vars

C35_Witness ==
    /\ Published.isValid
    /\ Published.state = "FrettedString"
    /\ Published.openStringFrequency = 110
    /\ Published.frettedStringFrequency = 220
    /\ Published.centDeviation = 0
    /\ ~Published.isInTune
    /\ lastCall["Intonation"].op = "ProcessBuffer"

\* A ProcessBuffer call of the configured fret-buzz detector has processed a
\* frame in this step.
FretBuzzFrameProcessed ==
    /\ fretBuzz.fftProcessor
    /\ lastCall'["FretBuzz"].op = "ProcessBuffer"
    /\ ~lastCall'["FretBuzz"].fresh
    /\ \/ fretBuzz' # fretBuzz
       \/ lastCall'["FretBuzz"] # lastCall["FretBuzz"]

\* The onset published in this step is the decision for the frame just
\* processed: that frame rises by more than 1.5 over the frame before it, in
\* RMS or in spectrum; an onset published earlier plays no part.
OnsetNotLatched ==
    fretBuzz'.latestResult.onsetDetected =>
        /\ fretBuzz.prevRMS > 0
        /\ \/ 2 * fretBuzz'.prevRMS > 3 * fretBuzz.prevRMS
           \/ 2 * CalculateSpectralFlux(fretBuzz'.prevSpectrum,
                                        fretBuzz.prevSpectrum) > 3

\* C36: the first frame the fret-buzz detector processes after Configure or
\* after Reset is published with onsetDetected = false, whatever the frame;
\* and the onset of every published result is that of the frame just
\* processed, not one kept from earlier frames.
C36_FirstFrameHasNoOnset ==
    [][ FretBuzzFrameProcessed =>
          /\ ( \/ lastCall["FretBuzz"].op # "ProcessBuffer"
               \/ lastCall["FretBuzz"].fresh ) =>
                  ~fretBuzz'.latestResult.onsetDetected
          /\ OnsetNotLatched ]_vars

\* C36 as amended: the first frame the fret-buzz detector processes after
\* its construction or after Reset is published with onsetDetected = false,
\* whatever the frame and however often Configure was called; and the onset
\* of every published result is that of the frame just processed.
C36_FirstFrameSinceResetHasNoOnset ==
    [][ FretBuzzFrameProcessed =>
          /\ lastCall["FretBuzz"].op # "ProcessBuffer" =>
                  ~fretBuzz'.latestResult.onsetDetected
          /\ OnsetNotLatched ]_vars

\* A loud frame has been published without an onset after an onset was
\* published and the detector reset.
C36_Witness ==
    /\ lastCall["FretBuzz"].op = "ProcessBuffer"
    /\ fretBuzz.latestResult.isValid
    /\ fretBuzz.prevRMS = FretBuzzNote.rms
    /\ fretBuzz.prevSpectrum = FretBuzzNote.spectrum
    /\ fretBuzz.latestResult.buzzScore = 100
    /\ ~fretBuzz.latestResult.onsetDetected

\* C37: after Reset of the fret-buzz detector or the string-health analyzer,
\* from any state, the published result is valid with every field at its
\* default (the scores, decayRate, spectralCentroid, fundamentalFrequency,
\* onsetDetected and the detected string), the histories are empty, and the
\* analyzer is in the state of a freshly configured one.
C37_ResetGivesFreshAnalyzer ==
    /\ lastCall["FretBuzz"].op = "Reset" =>
          fretBuzz = [FretBuzzDetectorInit EXCEPT
                         !.config = fretBuzz.config,
                         !.fftProcessor = fretBuzz.fftProcessor,
                         !.latestResult = [FretBuzzResultInit EXCEPT
                                              !.isValid = TRUE]]
    /\ lastCall["StringHealth"].op = "Reset" =>
          stringHealth = [StringHealthAnalyzerInit EXCEPT
                             !.config = stringHealth.config,
                             !.fftProcessor = stringHealth.fftProcessor,
                             !.latestResult = [StringHealthResultInit EXCEPT
                                                  !.isValid = TRUE]]

\* C38: GetLatestResult never returns null.  Up to the first publication
\* the slot holds the default result, isValid false (and state Idle for the
\* intonation analyzer); every result ProcessBuffer or Reset publishes has
\* isValid true, also after a Reset, and a slot that held a valid result
\* holds one ever after.
C38_ResultNeverNullValidOncePublished ==
    /\ [](/\ latestResult \in ObjIds
          /\ heap[latestResult] # NoObject
          /\ ~Published.isValid => Published = IntonationResultInit
          /\ ~fretBuzz.latestResult.isValid =>
                fretBuzz.latestResult = FretBuzzResultInit
          /\ ~stringHealth.latestResult.isValid =>
                stringHealth.latestResult = StringHealthResultInit
          /\ lastCall["Intonation"].op = "Reset" => Published.isValid
          /\ lastCall["FretBuzz"].op = "Reset" => fretBuzz.latestResult.isValid
          /\ lastCall["StringHealth"].op = "Reset" =>
                stringHealth.latestResult.isValid)
    /\ [][ /\ latestResult' # latestResult => heap'[latestResult'].isValid
           /\ fretBuzz'.latestResult # fretBuzz.latestResult =>
                 fretBuzz'.latestResult.isValid
           /\ stringHealth'.latestResult # stringHealth.latestResult =>
                 stringHealth'.latestResult.isValid
           /\ Published.isValid => heap'[latestResult'].isValid
           /\ fretBuzz.latestResult.isValid => fretBuzz'.latestResult.isValid
           /\ stringHealth.latestResult.isValid =>
                 stringHealth'.latestResult.isValid
           /\ ( /\ intonation.pitchDetector
                /\ lastCall'["Intonation"].op = "ProcessBuffer"
                /\ lastCall'["Intonation"] # lastCall["Intonation"] ) =>
                    heap'[latestResult'].isValid ]_vars

\* A configured intonation analyzer has published the result of a frame
\* that moved it out of Idle, in place of the default result.
C38_Witness ==
    /\ lastCall["Intonation"].op = "ProcessBuffer"
    /\ lastCall["Intonation"].from = "Idle"
    /\ latestResult # 1
    /\ Published.isValid
    /\ Published.state = "OpenString"

\* The number of the publication that stored result object o.
SerialOf(o) == lastCall["Intonation"].serial[o]

\* C39: the slot holds the most recent publication.  The object in
\* latestResult is the one stored by the last ProcessBuffer or Reset call
\* that returned; a GetLatestResult call returns that object, so the result
\* of every call that returned before it is this one or an older,
\* overwritten one; and the result a reader gets is never older than the one
\* it got from its call before.
C39_SlotHoldsLatestPublication ==
    /\ [](SerialOf(latestResult) = Returned)
    /\ [][ ( acall["reader"].pc = "gl_copy" /\ acall'["reader"].pc = "idle" ) =>
             /\ lastCall'["Intonation"].serial[acall'["reader"].obj] = Returned
             /\ acall["reader"].obj # NullObject =>
                   lastCall'["Intonation"].serial[acall'["reader"].obj]
                       >= SerialOf(acall["reader"].obj)
          ]_vars

\* The reader's second call returned the result of the first publication,
\* which a second publication has replaced in the slot since.
C39_Witness ==
    /\ acall["reader"].n = 2
    /\ acall["reader"].pc = "idle"
    /\ acall["reader"].obj \notin {NullObject, latestResult}
    /\ SerialOf(acall["reader"].obj) = 1
    /\ SerialOf(latestResult) = 2
    /\ Returned = 2

====
